---- MODULE Spec2Model ----
(***************************************************************************)
(* Model of the secret-santa gift-exchange core:                           *)
(*   lib/crypto.ts       encryptAssignments, decryptAssignments,           *)
(*                       getAssignmentForParticipant                       *)
(*   lib/assignments.ts  generateAssignments, attemptAssignment,           *)
(*                       isValidAssignment                                 *)
(*   lib/clues.ts        generateClues (3-clue and 10-clue variants)       *)
(*                                                                         *)
(* JavaScript values that cross the JSON boundary are tagged records       *)
(* [j |-> tag, v |-> payload]; a JSON text is a sequence of lexical        *)
(* tokens [t |-> kind, v |-> lexeme].  The cipher of crypto-js is a        *)
(* library outside the repository and is modelled symbolically: a          *)
(* ciphertext opens to its plaintext under the key it was made with and to *)
(* bytes that are not a JSON text under any other key.                     *)
(***************************************************************************)
EXTENDS Integers, Sequences, FiniteSets, TLC

VARIABLES
    participants,   \* generateAssignments: the participants argument
    constraints,    \* generateAssignments: the constraints argument
    pc,             \* generateAssignments: position of the call
    attempts,       \* generateAssignments: the local counter `attempts`
    tried,          \* number of constrained attemptAssignment calls made
    fallbackTried,  \* number of constraint-dropped attemptAssignment calls made
    warned,         \* console.warn('Using relaxed constraints ...') was issued
    encryptCalls,   \* number of encryptAssignments calls made by the call
    result,         \* the token returned by generateAssignments
    error,          \* the message of the error raised by generateAssignments
    cpc,            \* encoder: position of the encoder scenario
    cAssignments,   \* encoder: the assignment list handed to encryptAssignments
    cToken,         \* encoder: the token handed to decryptAssignments
    cResult,        \* encoder: outcome of decryptAssignments(cToken)
    cPid,           \* encoder: participantId handed to getAssignmentForParticipant
    cLookup,        \* encoder: outcome of getAssignmentForParticipant(cToken, cPid)
    gpc,            \* generateClues: position of the call
    gVariant,       \* generateClues: the target count of the variant called (10 or 3)
    gToken,         \* generateClues: the encryptedAssignments argument
    gParticipants,  \* generateClues: the participants argument
    gExclusions,    \* generateClues: the exclusions argument
    gResult,        \* generateClues: the outcome of the call
    vpc,            \* validateAssignments: position of the call
    vAssignments,   \* validateAssignments: the assignments argument
    vParticipants,  \* validateAssignments: the participants argument
    vValid,         \* validateAssignments: the value returned
    mpc,            \* sendAssignmentEmails: position of the call
    mConfigured,    \* sendAssignmentEmails: process.env.RESEND_API_KEY is set
    mToken,         \* sendAssignmentEmails: the encryptedAssignments argument
    mParticipants,  \* sendAssignmentEmails: the participants argument
    mIndex,         \* sendAssignmentEmails: the loop variable i, counted from 1
    mSends,         \* sendAssignmentEmails: the resend.emails.send calls made, in order
    mError,         \* sendAssignmentEmails: the error the call raised
    dbOwner,        \* database: organizerEmail of the game row, "" while there is none
    dbParticipants, \* database: the participant rows of the game
    dbAssignments,  \* database: the assignmentHash of each assignment row of the game
    dbClues,        \* database: the clue rows of the game
    aResponse,      \* API: the response of the last request
    aDecrypts,      \* API: the functions that have called decryptAssignments
    sRows,          \* store: the clue rows of every game
    sToken,         \* store: the assignmentHash of the assignment row of game g1
    sGen,           \* store: number of batches of clue rows created by regenerations
    sReq,           \* store: per request: handler, position, inputs, response status
    sSent           \* store: the reminder emails handed to resend.emails.send, in order

vars == <<participants, constraints, pc, attempts, tried, fallbackTried, warned,
          encryptCalls, result, error,
          cpc, cAssignments, cToken, cResult, cPid, cLookup,
          gpc, gVariant, gToken, gParticipants, gExclusions, gResult,
          vpc, vAssignments, vParticipants, vValid,
          mpc, mConfigured, mToken, mParticipants, mIndex, mSends, mError,
          dbOwner, dbParticipants, dbAssignments, dbClues, aResponse, aDecrypts,
          sRows, sToken, sGen, sReq, sSent>>

engineVars == <<participants, constraints, pc, attempts, tried, fallbackTried,
                warned, encryptCalls, result, error>>

encoderVars == <<cpc, cAssignments, cToken, cResult, cPid, cLookup>>

clueVars == <<gpc, gVariant, gToken, gParticipants, gExclusions, gResult>>

validatorVars == <<vpc, vAssignments, vParticipants, vValid>>

mailerVars == <<mpc, mConfigured, mToken, mParticipants, mIndex, mSends, mError>>

apiVars == <<dbOwner, dbParticipants, dbAssignments, dbClues, aResponse, aDecrypts>>

storeVars == <<sRows, sToken, sGen, sReq, sSent>>

-----------------------------------------------------------------------------
(* Bounds *)

MaxParticipants == 4    \* longest participant list handed to generateAssignments
MaxExclusions == 1      \* longest exclusion list handed to generateAssignments
MaxLen == 2             \* longest assignment list handed to encryptAssignments
MaxCluePeople == 4      \* longest participant list handed to generateClues
MaxValidated == 2       \* longest participant list handed to validateAssignments
MaxTurn == 2            \* rotations of the candidate list a shuffle can produce
MaxMailed == 3          \* longest participant list handed to sendAssignmentEmails
MaxApiPeople == 3       \* longest participant list posted to /api/games
MaxRequests == 3        \* requests on one game in flight at the same time
MaxSelected == 2        \* most clue ids in the body of a selection request
MaxRejected == 1        \* last position in Promise.all of a create that may be rejected

-----------------------------------------------------------------------------
(* Program constants *)

maxAttempts == 100

ENCRYPTION_KEY == "NEXTAUTH_SECRET"

OtherKey == "another-secret"

InsufficientParticipants == "Need at least 2 participants for Secret Santa"

NoReceiverFound == "No valid receiver found for giver"

CouldNotGenerate == "Could not generate valid assignments"

InvalidAssignmentData == "Invalid assignment data"

-----------------------------------------------------------------------------
(* Outcomes of a call: a returned value or a raised error *)

Return(v) == [kind |-> "return", value |-> v, error |-> ""]

Throw(msg) == [kind |-> "throw", value |-> <<>>, error |-> msg]

None == [kind |-> "none", value |-> <<>>, error |-> ""]

-----------------------------------------------------------------------------
(* JavaScript values *)

JsNull == [j |-> "null", v |-> <<>>]

JsUndefined == [j |-> "undefined", v |-> <<>>]

JsNum(n) == [j |-> "num", v |-> n]

JsStr(s) == [j |-> "str", v |-> s]

JsArr(items) == [j |-> "arr", v |-> items]

\* an object is the sequence of its <<key, value>> members in insertion order
JsObj(members) == [j |-> "obj", v |-> members]

\* o.key: the value of the last member named key, undefined when there is none
GetField(o, key) ==
    LET hits == {i \in 1..Len(o.v) : o.v[i][1] = key}
    IN  IF o.j # "obj" \/ hits = {} THEN JsUndefined
        ELSE o.v[CHOOSE i \in hits : \A k \in hits : k <= i][2]

IsAssignmentObject(o) ==
    /\ o.j = "obj"
    /\ Len(o.v) = 2
    /\ o.v[1][1] = "giverId" /\ o.v[1][2].j = "str"
    /\ o.v[2][1] = "receiverId" /\ o.v[2][2].j = "str"

\* a JavaScript value that is a list of { giverId: string, receiverId: string }
IsAssignmentList(val) ==
    /\ val.j = "arr"
    /\ \A i \in 1..Len(val.v) : IsAssignmentObject(val.v[i])

\* the Assignment[] a JavaScript value of that shape stands for
AssignmentsOf(val) ==
    [i \in 1..Len(val.v) |->
        [giverId |-> val.v[i].v[1][2].v, receiverId |-> val.v[i].v[2][2].v]]

-----------------------------------------------------------------------------
(* JSON.stringify and JSON.parse over token sequences *)

Tok(t) == [t |-> t, v |-> ""]

TokStr(s) == [t |-> "str", v |-> s]

TokNum(n) == [t |-> "num", v |-> n]

RECURSIVE StringifyEntries(_)
StringifyEntries(assignments) ==
    IF assignments = <<>> THEN <<>>
    ELSE LET a == Head(assignments)
             obj == << Tok("{"), TokStr("giverId"), Tok(":"), TokStr(a.giverId),
                       Tok(","), TokStr("receiverId"), Tok(":"), TokStr(a.receiverId),
                       Tok("}") >>
         IN  IF Len(assignments) = 1 THEN obj
             ELSE obj \o <<Tok(",")>> \o StringifyEntries(Tail(assignments))

\* JSON.stringify(assignments) for assignments : Assignment[]
JSONStringify(assignments) ==
    <<Tok("[")>> \o StringifyEntries(assignments) \o <<Tok("]")>>

ParseOk(val, rest) == [ok |-> TRUE, val |-> val, rest |-> rest]

ParseFail == [ok |-> FALSE, val |-> JsUndefined, rest |-> <<>>]

RECURSIVE ParseValue(_)
RECURSIVE ParseElements(_, _)
RECURSIVE ParseMembers(_, _)

\* elements of an array after '[' or after ',': value (',' value)* ']'
ParseElements(ts, acc) ==
    LET r == ParseValue(ts)
    IN  IF ~r.ok \/ r.rest = <<>> THEN ParseFail
        ELSE IF Head(r.rest).t = "]" THEN ParseOk(JsArr(Append(acc, r.val)), Tail(r.rest))
        ELSE IF Head(r.rest).t = "," THEN ParseElements(Tail(r.rest), Append(acc, r.val))
        ELSE ParseFail

\* members of an object after '{' or after ',': string ':' value (',' ...)* '}'
ParseMembers(ts, acc) ==
    IF Len(ts) < 2 \/ ts[1].t # "str" \/ ts[2].t # ":" THEN ParseFail
    ELSE LET r == ParseValue(SubSeq(ts, 3, Len(ts)))
             member == <<ts[1].v, r.val>>
         IN  IF ~r.ok \/ r.rest = <<>> THEN ParseFail
             ELSE IF Head(r.rest).t = "}"
                  THEN ParseOk(JsObj(Append(acc, member)), Tail(r.rest))
             ELSE IF Head(r.rest).t = ","
                  THEN ParseMembers(Tail(r.rest), Append(acc, member))
             ELSE ParseFail

ParseValue(ts) ==
    IF ts = <<>> THEN ParseFail
    ELSE LET h == Head(ts)
             rest == Tail(ts)
         IN  CASE h.t = "null" -> ParseOk(JsNull, rest)
               [] h.t = "num"  -> ParseOk(JsNum(h.v), rest)
               [] h.t = "str"  -> ParseOk(JsStr(h.v), rest)
               [] h.t = "["    ->
                    IF rest # <<>> /\ Head(rest).t = "]"
                    THEN ParseOk(JsArr(<<>>), Tail(rest))
                    ELSE ParseElements(rest, <<>>)
               [] h.t = "{"    ->
                    IF rest # <<>> /\ Head(rest).t = "}"
                    THEN ParseOk(JsObj(<<>>), Tail(rest))
                    ELSE ParseMembers(rest, <<>>)
               [] OTHER        -> ParseFail

\* JSON.parse(text): the value, or a SyntaxError
JSONParse(text) ==
    LET r == ParseValue(text)
    IN  IF r.ok /\ r.rest = <<>> THEN Return(r.val) ELSE Throw("SyntaxError")

-----------------------------------------------------------------------------
(* crypto-js AES under a passphrase, symbolically *)

\* `salt` stands for everything in a ciphertext besides key and plaintext; it
\* fixes what the bytes look like when the ciphertext is opened with another key
Salts == {"s1", "s2", "s3"}

Cipher(key, salt, plain) == [kind |-> "cipher", key |-> key, salt |-> salt, plain |-> plain]

\* a string that no CryptoJS.AES.encrypt call produced
Corrupt(salt) == [kind |-> "corrupt", key |-> "", salt |-> salt, plain |-> <<>>]

Bytes(utf8, text) == [utf8 |-> utf8, text |-> text]

\* bytes that are not the plaintext: malformed UTF-8, nothing, or unreadable text
Garbage(salt) ==
    CASE salt = "s1" -> Bytes(FALSE, <<>>)
      [] salt = "s2" -> Bytes(TRUE, <<>>)
      [] OTHER       -> Bytes(TRUE, <<Tok("junk")>>)

\* CryptoJS.AES.encrypt(data, key).toString()
AESEncrypt(data, key, salt) == Cipher(key, salt, data)

\* CryptoJS.AES.decrypt(encryptedData, key)
AESDecrypt(encryptedData, key) ==
    IF encryptedData.kind = "cipher" /\ encryptedData.key = key
    THEN Bytes(TRUE, encryptedData.plain)
    ELSE Garbage(encryptedData.salt)

\* bytes.toString(CryptoJS.enc.Utf8)
Utf8ToString(bytes) ==
    IF bytes.utf8 THEN Return(bytes.text) ELSE Throw("Malformed UTF-8 data")

-----------------------------------------------------------------------------
(* lib/crypto.ts *)

\* encryptAssignments under a key other than the one decryptAssignments reads
encryptAssignmentsOtherKey(assignments, salt) ==
    LET assignmentData == JSONStringify(assignments)
    IN  AESEncrypt(assignmentData, OtherKey, salt)

encryptAssignments(assignments, salt) ==
    LET assignmentData == JSONStringify(assignments)
    IN  AESEncrypt(assignmentData, ENCRYPTION_KEY, salt)

\* the catch block of decryptAssignments swallowing the failure
decryptAssignmentsSwallowing(encryptedData) ==
    LET bytes == AESDecrypt(encryptedData, ENCRYPTION_KEY)
        decryptedData == Utf8ToString(bytes)
    IN  IF decryptedData.kind = "throw" THEN Return(JsArr(<<>>))
        ELSE LET parsed == JSONParse(decryptedData.value)
             IN  IF parsed.kind = "throw" THEN Return(JsArr(<<>>)) ELSE parsed

decryptAssignments(encryptedData) ==
    LET bytes == AESDecrypt(encryptedData, ENCRYPTION_KEY)
        decryptedData == Utf8ToString(bytes)
    IN  IF decryptedData.kind = "throw" THEN Throw(InvalidAssignmentData)
        ELSE LET parsed == JSONParse(decryptedData.value)
             IN  IF parsed.kind = "throw" THEN Throw(InvalidAssignmentData)
                 ELSE parsed

\* assignments.find(a => a.giverId === participantId) over the items of an array
RECURSIVE FindGiver(_, _)
FindGiver(items, participantId) ==
    IF items = <<>> THEN Return(JsUndefined)
    ELSE LET a == Head(items)
         IN  IF a.j \in {"null", "undefined"} THEN Throw("TypeError")
             ELSE LET g == GetField(a, "giverId")
                  IN  IF g.j = "str" /\ g.v = participantId THEN Return(a)
                      ELSE FindGiver(Tail(items), participantId)

\* the body of the try block of getAssignmentForParticipant
LookupBody(encryptedData, participantId) ==
    LET dec == decryptAssignments(encryptedData)
    IN  IF dec.kind = "throw" THEN dec
        ELSE IF dec.value.j # "arr" THEN Throw("TypeError")
        ELSE LET assignment == FindGiver(dec.value.v, participantId)
             IN  IF assignment.kind = "throw" THEN assignment
                 ELSE IF assignment.value.j = "undefined" THEN Return(JsNull)
                 ELSE Return(GetField(assignment.value, "receiverId"))

\* getAssignmentForParticipant without its try/catch
getAssignmentForParticipantUncaught(encryptedData, participantId) ==
    LookupBody(encryptedData, participantId)

getAssignmentForParticipant(encryptedData, participantId) ==
    LET r == LookupBody(encryptedData, participantId)
    IN  IF r.kind = "throw" THEN Return(JsNull) ELSE r

-----------------------------------------------------------------------------
(* Participants *)

PersonIds == <<"p1", "p2", "p3", "p4", "p5", "p6", "p7",
               "p8", "p9", "p10", "p11", "p12", "p13", "p14">>

PersonNames == <<"Ann", "Bob", "Cleo", "Dan", "Eve", "Finn", "Gus",
                 "Hal", "Ida", "Jo", "Kim", "Lea", "Max", "Ned">>

PersonGenders == <<"female", "male", "female", "male", "female", "male", "female",
                   "male", "female", "male", "female", "male", "female", "male">>

PersonYears == <<2015, 2018, 2018, 2020, 2021, 2021, 2021,
                 2022, 2022, 2022, 2023, 2023, 2024, 2024>>

\* the part of each email address after the '@'
PersonDomains == <<"gmail.com", "gmail.com", "mail.ca", "gmail.com", "mail.ca", "web.org",
                   "gmail.com", "mail.ca", "gmail.com", "web.org", "gmail.com",
                   "mail.ca", "gmail.com", "web.org">>

Person(i) == [id |-> PersonIds[i], name |-> PersonNames[i], email |-> PersonDomains[i],
              gender |-> PersonGenders[i], yearMoved |-> PersonYears[i]]

Roster(n) == [i \in 1..n |-> Person(i)]

NoCouples(p1, p2) ==
    [type |-> "no_couples", data |-> [participant1 |-> p1, participant2 |-> p2]]

\* the exclusion lists of at most MaxExclusions pairs over the names in ps
RECURSIVE ConstraintLists(_, _)
ConstraintLists(names, len) ==
    IF len = 0 THEN {<<>>}
    ELSE LET shorter == ConstraintLists(names, len - 1)
         IN  shorter \cup
             {Append(cs, NoCouples(a, b)) :
                 cs \in {c \in shorter : Len(c) = len - 1}, a \in names, b \in names}

IdsOf(ps) == {ps[i].id : i \in 1..Len(ps)}

-----------------------------------------------------------------------------
(* lib/assignments.ts *)

\* the outcomes of a pass that never leaves an element where it is (j < i)
RandomChoicesMoving(n) == {js \in [2..n -> 1..n] : \A i \in 2..n : js[i] < i}

\* the outcomes of Math.random over one Fisher-Yates pass on n elements:
\* for each position i (from n down to 2) the index j in 1..i it is swapped with
RandomChoices(n) == {js \in [2..n -> 1..n] : \A i \in 2..n : js[i] <= i}

\* the swap of the shuffle leaving the array as it was
SwapNot(seq, i, j) == seq

Swap(seq, i, j) == [k \in 1..Len(seq) |-> IF k = i THEN seq[j]
                                           ELSE IF k = j THEN seq[i] ELSE seq[k]]

\* for (let i = receivers.length - 1; i > 0; i--) swap receivers[i], receivers[j]
RECURSIVE Shuffle(_, _, _)
Shuffle(receivers, i, js) ==
    IF i < 2 THEN receivers
    ELSE Shuffle(Swap(receivers, i, js[i]), i - 1, js)

\* isValidAssignment testing an excluded pair in the stated direction only
isValidAssignmentOneWay(giver, receiver, existingAssignments, cons) ==
    /\ giver.id # receiver.id
    /\ \A k \in 1..Len(cons) :
          CASE cons[k].type = "no_same_gender" -> giver.gender # receiver.gender
            [] cons[k].type = "no_couples" ->
                  ~(giver.name = cons[k].data.participant1
                        /\ receiver.name = cons[k].data.participant2)
            [] OTHER -> TRUE

isValidAssignment(giver, receiver, existingAssignments, cons) ==
    /\ giver.id # receiver.id
    /\ \A k \in 1..Len(cons) :
          CASE cons[k].type = "no_same_gender" -> giver.gender # receiver.gender
            [] cons[k].type = "no_couples" ->
                  ~(\/ (giver.name = cons[k].data.participant1
                            /\ receiver.name = cons[k].data.participant2)
                    \/ (giver.name = cons[k].data.participant2
                            /\ receiver.name = cons[k].data.participant1))
            [] OTHER -> TRUE

\* receivers.splice(i, 1) leaving the pool as it was
RemoveAtKeeping(seq, i) == seq

RemoveAt(seq, i) == SubSeq(seq, 1, i - 1) \o SubSeq(seq, i + 1, Len(seq))

\* the for-of loop over givers: first valid receiver of the pool, spliced out
RECURSIVE AssignGivers(_, _, _, _)
AssignGivers(givers, receivers, assignments, cons) ==
    IF givers = <<>> THEN Return(assignments)
    ELSE LET giver == Head(givers)
             valid == {i \in 1..Len(receivers) :
                          isValidAssignment(giver, receivers[i], assignments, cons)}
         IN  IF valid = {} THEN Throw(NoReceiverFound)
             ELSE LET i == CHOOSE v \in valid : \A w \in valid : v <= w
                  IN  AssignGivers(Tail(givers), RemoveAt(receivers, i),
                          Append(assignments,
                                 [giverId |-> giver.id, receiverId |-> receivers[i].id]),
                          cons)

attemptAssignment(ps, cons, js) ==
    AssignGivers(ps, Shuffle(ps, Len(ps), js), <<>>, cons)

\* participants.length < 1
TooFewOffByOne(ps) == Len(ps) < 1

\* participants.length < 2
TooFew(ps) == Len(ps) < 2

\* the catch block without attempts++
IncrementedNot(a) == a

\* attempts++
Incremented(a) == a + 1

\* attempts >= maxAttempts - 1
ExhaustedEarly(a) == a >= maxAttempts - 1

\* attempts >= maxAttempts
Exhausted(a) == a >= maxAttempts

Counted(n) == IF n <= maxAttempts THEN n + 1 ELSE n

\* entry of generateAssignments: the participants.length check
Call ==
    /\ pc = "start"
    /\ IF TooFew(participants)
       THEN pc' = "raised" /\ error' = InsufficientParticipants
       ELSE pc' = "loop" /\ error' = error
    /\ UNCHANGED <<participants, constraints, attempts, tried, fallbackTried,
                   warned, encryptCalls, result>>
    /\ UNCHANGED <<encoderVars, clueVars, validatorVars, mailerVars, apiVars, storeVars>>

\* one iteration of the while loop up to the test of attempts in the catch block
ConstrainedAttempt ==
    /\ pc = "loop"
    /\ IF attempts < maxAttempts
       THEN \E js \in RandomChoices(Len(participants)), salt \in Salts :
              LET assignments == attemptAssignment(participants, constraints, js)
              IN  /\ tried' = Counted(tried)
                  /\ IF assignments.kind = "return"
                     THEN /\ result' = encryptAssignments(assignments.value, salt)
                          /\ encryptCalls' = encryptCalls + 1
                          /\ pc' = "returned"
                          /\ UNCHANGED <<attempts, warned>>
                     ELSE /\ attempts' = Incremented(attempts)
                          /\ IF Exhausted(attempts')
                             THEN warned' = TRUE /\ pc' = "fallback"
                             ELSE warned' = warned /\ pc' = "loop"
                          /\ UNCHANGED <<result, encryptCalls>>
                  /\ error' = error
       ELSE /\ pc' = "raised"
            /\ error' = CouldNotGenerate
            /\ UNCHANGED <<attempts, tried, warned, encryptCalls, result>>
    /\ UNCHANGED <<participants, constraints, fallbackTried>>
    /\ UNCHANGED <<encoderVars, clueVars, validatorVars, mailerVars, apiVars, storeVars>>

\* the rest of the catch block: attemptAssignment(participants, []), uncaught
FallbackAttempt ==
    /\ pc = "fallback"
    /\ \E js \in RandomChoices(Len(participants)), salt \in Salts :
          LET assignments == attemptAssignment(participants, <<>>, js)
          IN  /\ fallbackTried' = fallbackTried + 1
              /\ IF assignments.kind = "return"
                 THEN /\ result' = encryptAssignments(assignments.value, salt)
                      /\ encryptCalls' = encryptCalls + 1
                      /\ pc' = "returned"
                      /\ error' = error
                 ELSE /\ pc' = "raised"
                      /\ error' = assignments.error
                      /\ UNCHANGED <<result, encryptCalls>>
    /\ UNCHANGED <<participants, constraints, attempts, tried, warned>>
    /\ UNCHANGED <<encoderVars, clueVars, validatorVars, mailerVars, apiVars, storeVars>>

EncoderIdle ==
    /\ cpc = "idle"
    /\ cAssignments = <<>>
    /\ cToken = Corrupt("s1")
    /\ cResult = None
    /\ cPid = ""
    /\ cLookup = None

ClueIdle ==
    /\ gpc = "idle"
    /\ gVariant = 0
    /\ gToken = Corrupt("s1")
    /\ gParticipants = <<>>
    /\ gExclusions = <<>>
    /\ gResult = None

ValidatorIdle ==
    /\ vpc = "idle"
    /\ vAssignments = <<>>
    /\ vParticipants = <<>>
    /\ vValid = FALSE

MailerIdle ==
    /\ mpc = "idle"
    /\ mConfigured = FALSE
    /\ mToken = Corrupt("s1")
    /\ mParticipants = <<>>
    /\ mIndex = 0
    /\ mSends = <<>>
    /\ mError = ""

ApiIdle ==
    /\ dbOwner = ""
    /\ dbParticipants = <<>>
    /\ dbAssignments = <<>>
    /\ dbClues = <<>>
    /\ aResponse = [status |-> 0, body |-> JsNull]
    /\ aDecrypts = {}

StoreIdle ==
    /\ sRows = {}
    /\ sToken = Corrupt("s1")
    /\ sGen = 0
    /\ sReq = <<>>
    /\ sSent = <<>>

EngineIdle ==
    /\ participants = <<>>
    /\ constraints = <<>>
    /\ pc = "idle"
    /\ attempts = 0
    /\ tried = 0
    /\ fallbackTried = 0
    /\ warned = FALSE
    /\ encryptCalls = 0
    /\ result = Corrupt("s1")
    /\ error = ""

Init ==
    /\ \E n \in 0..MaxParticipants :
          /\ participants = Roster(n)
          /\ constraints \in ConstraintLists({Roster(n)[i].name : i \in 1..n}, MaxExclusions)
    /\ pc = "start"
    /\ attempts = 0
    /\ tried = 0
    /\ fallbackTried = 0
    /\ warned = FALSE
    /\ encryptCalls = 0
    /\ result = Corrupt("s1")
    /\ error = ""
    /\ EncoderIdle
    /\ ClueIdle
    /\ ValidatorIdle
    /\ MailerIdle
    /\ ApiIdle
    /\ StoreIdle

Next == Call \/ ConstrainedAttempt \/ FallbackAttempt

Spec == Init /\ [][Next]_vars

-----------------------------------------------------------------------------
(* Encoder scenarios: encrypt then decrypt, decrypt a received string, look up *)

EncoderIds == {"p1", "p2", "p3"}

RECURSIVE AssignmentLists(_)
AssignmentLists(len) ==
    IF len = 0 THEN {<<>>}
    ELSE LET shorter == AssignmentLists(len - 1)
         IN  shorter \cup
             {Append(as, a) : as \in {x \in shorter : Len(x) = len - 1},
                              a \in [giverId : EncoderIds, receiverId : EncoderIds]}

EntryText(g, r) ==
    << Tok("{"), TokStr("giverId"), Tok(":"), g, Tok(","),
       TokStr("receiverId"), Tok(":"), r, Tok("}") >>

\* JSON texts that are well formed and are not a list of {giverId, receiverId}
OddJsonTexts ==
    { <<TokNum("5")>>,
      <<Tok("null")>>,
      <<TokStr("p1")>>,
      <<Tok("{"), Tok("}")>>,
      EntryText(TokStr("p1"), TokStr("p2")),
      <<Tok("["), Tok("null"), Tok("]")>>,
      <<Tok("["), TokNum("5"), Tok("]")>>,
      <<Tok("["), Tok("{"), TokStr("giverId"), Tok(":"), TokStr("p1"), Tok("}"), Tok("]")>>,
      <<Tok("[")>> \o EntryText(TokStr("p1"), TokNum("7")) \o <<Tok("]")>>,
      <<Tok("["), Tok("null"), Tok(",")>> \o EntryText(TokStr("p1"), TokStr("p2"))
          \o <<Tok("]")>>,
      <<Tok("[")>> \o EntryText(TokNum("1"), TokStr("p2")) \o <<Tok(",")>>
          \o EntryText(TokStr("p1"), TokStr("p3")) \o <<Tok("]")>> }

\* texts that JSON.parse rejects
BrokenTexts ==
    { <<>>,
      <<Tok("[")>>,
      <<Tok("junk")>>,
      <<Tok("["), Tok("]"), Tok("]")>>,
      <<Tok("["), TokStr("p1"), Tok(","), Tok("]")>> }

PlainTexts ==
    {JSONStringify(as) : as \in AssignmentLists(MaxLen)} \cup OddJsonTexts \cup BrokenTexts

\* the strings a caller can hand to decryptAssignments
ReceivedTokens ==
    {Corrupt(s) : s \in Salts}
    \cup {Cipher(k, s, text) : k \in {ENCRYPTION_KEY, OtherKey}, s \in Salts,
                               text \in PlainTexts}

EncoderInit ==
    /\ EngineIdle
    /\ ClueIdle
    /\ ValidatorIdle
    /\ MailerIdle
    /\ ApiIdle
    /\ StoreIdle
    /\ cResult = None
    /\ cPid = ""
    /\ cLookup = None
    /\ \/ /\ cpc = "plain"
          /\ cAssignments \in AssignmentLists(MaxLen)
          /\ cToken = Corrupt("s1")
       \/ /\ cpc = "received"
          /\ cAssignments = <<>>
          /\ cToken \in ReceivedTokens

Encrypt ==
    /\ cpc = "plain"
    /\ \E salt \in Salts : cToken' = encryptAssignments(cAssignments, salt)
    /\ cpc' = "encrypted"
    /\ UNCHANGED <<cAssignments, cResult, cPid, cLookup>>
    /\ UNCHANGED <<engineVars, clueVars, validatorVars, mailerVars, apiVars, storeVars>>

Decrypt ==
    /\ cpc \in {"encrypted", "received"}
    /\ cResult' = decryptAssignments(cToken)
    /\ cpc' = IF cpc = "encrypted" THEN "roundtrip" ELSE "decoded"
    /\ UNCHANGED <<cAssignments, cToken, cPid, cLookup>>
    /\ UNCHANGED <<engineVars, clueVars, validatorVars, mailerVars, apiVars, storeVars>>

Lookup ==
    /\ cpc \in {"encrypted", "received"}
    /\ \E participantId \in EncoderIds :
          /\ cPid' = participantId
          /\ cLookup' = getAssignmentForParticipant(cToken, participantId)
    /\ cpc' = "looked"
    /\ UNCHANGED <<cAssignments, cToken, cResult>>
    /\ UNCHANGED <<engineVars, clueVars, validatorVars, mailerVars, apiVars, storeVars>>

EncoderSpec == EncoderInit /\ [][Encrypt \/ Decrypt \/ Lookup]_vars

-----------------------------------------------------------------------------
(* Properties of generateAssignments *)

\* the assignment list a token opens to, or <<>> when it does not open to one
Decoded(token) ==
    LET d == decryptAssignments(token)
    IN  IF d.kind = "return" /\ IsAssignmentList(d.value)
        THEN AssignmentsOf(d.value) ELSE <<>>

OpensToList(token) ==
    LET d == decryptAssignments(token)
    IN  d.kind = "return" /\ IsAssignmentList(d.value)

Occurrences(as, field, id) ==
    Cardinality({i \in 1..Len(as) : IF field = "giverId" THEN as[i].giverId = id
                                                          ELSE as[i].receiverId = id})

IsDerangementOf(as, ps) ==
    /\ Len(as) = Len(ps)
    /\ \A id \in IdsOf(ps) : /\ Occurrences(as, "giverId", id) = 1
                             /\ Occurrences(as, "receiverId", id) = 1
    /\ \A i \in 1..Len(as) : as[i].giverId # as[i].receiverId

NameOfId(ps, id) == (CHOOSE i \in 1..Len(ps) : ps[i].id = id)

\* no entry of as joins the two names of an exclusion, in either direction
AvoidsExclusions(as, ps, cons) ==
    \A i \in 1..Len(as), k \in 1..Len(cons) :
        LET g == ps[NameOfId(ps, as[i].giverId)].name
            r == ps[NameOfId(ps, as[i].receiverId)].name
            e == cons[k].data
        IN  /\ ~(g = e.participant1 /\ r = e.participant2)
            /\ ~(g = e.participant2 /\ r = e.participant1)

IndexPermutations(n) == {f \in [1..n -> 1..n] : \A i, k \in 1..n : f[i] = f[k] => i = k}

\* some derangement of the participants avoids every excluded pair
JointlySatisfiable(ps, cons) ==
    \E f \in IndexPermutations(Len(ps)) :
        LET as == [i \in 1..Len(ps) |-> [giverId |-> ps[i].id, receiverId |-> ps[f[i]].id]]
        IN  IsDerangementOf(as, ps) /\ AvoidsExclusions(as, ps, cons)

\* C1: a token returned by generateAssignments opens to a list in which every
\* participant id is giver exactly once and receiver exactly once and nobody
\* gives to themself, after constrained attempts and after the fallback alike.
C1_DerangementValidity ==
    pc = "returned" =>
        OpensToList(result) /\ IsDerangementOf(Decoded(result), participants)

C1_Witness ==
    /\ pc = "returned" /\ warned /\ fallbackTried = 1
    /\ Len(participants) = MaxParticipants /\ constraints # <<>>

\* C2 as stated: whenever the exclusions are jointly satisfiable, the returned
\* set avoids every excluded pair, whatever the shuffles were.
C2_AsStated ==
    pc = "returned" =>
        \/ AvoidsExclusions(Decoded(result), participants, constraints)
        \/ ~JointlySatisfiable(participants, constraints)

\* C2 amended: a set returned by one of the constrained attempts (no relaxation
\* warning was issued) avoids every excluded pair in both directions.
C2_ConstrainedResultAvoidsExclusions ==
    (pc = "returned" /\ ~warned) =>
        AvoidsExclusions(Decoded(result), participants, constraints)

C2_Witness ==
    /\ pc = "returned" /\ ~warned /\ attempts > 0
    /\ Len(constraints) > 0
    /\ constraints[1].data.participant1 # constraints[1].data.participant2
    /\ JointlySatisfiable(participants, constraints)

\* C3: with two or more participants no search failure reaches the caller; the
\* only error generateAssignments raises is the fewer-than-2-participants one.
C3_OnlyInsufficientParticipantsRaised ==
    pc = "raised" => error = InsufficientParticipants

\* what is left of a call: the entry check, the attempts still allowed, the fallback
Remaining ==
    CASE pc = "start"    -> maxAttempts + 2
      [] pc = "loop"     -> maxAttempts + 1 - attempts
      [] pc = "fallback" -> 1
      [] OTHER           -> 0

\* C4: every call of generateAssignments ends, returning or raising, after at
\* most maxAttempts constrained attempts and at most one fallback attempt:
\* every step of a call lowers Remaining, which never falls below 0, and the
\* two attempt counts stay within their limits.
C4_Terminates ==
    [][ /\ Remaining' < Remaining
        /\ Remaining' >= 0
        /\ tried' <= maxAttempts
        /\ fallbackTried' <= 1 ]_vars

C4_Witness ==
    /\ pc \in {"returned", "raised"}
    /\ tried = maxAttempts /\ fallbackTried = 1

\* C5: with fewer than 2 participants the call raises the insufficient-
\* participants error without any attempt and without encrypting anything.
C5_TooFewRaisesBeforeAnyAttempt ==
    (Len(participants) < 2 /\ pc # "start") =>
        /\ pc = "raised" /\ error = InsufficientParticipants
        /\ tried = 0 /\ fallbackTried = 0 /\ attempts = 0
        /\ encryptCalls = 0 /\ result = Corrupt("s1") /\ ~warned

C5_Witness == pc = "raised" /\ Len(participants) = 1

-----------------------------------------------------------------------------
(* Properties of the encoder *)

\* C6: decryptAssignments(encryptAssignments(A)) is A, same entries, same order,
\* for every list A of {giverId, receiverId} pairs, the empty list included.
C6_RoundTrip ==
    cpc = "roundtrip" =>
        /\ cResult.kind = "return"
        /\ IsAssignmentList(cResult.value)
        /\ AssignmentsOf(cResult.value) = cAssignments

C6_Witness ==
    /\ cpc = "roundtrip" /\ Len(cAssignments) = MaxLen
    /\ cAssignments[1] # cAssignments[MaxLen]

C8_ReturnsOnlyAssignmentLists ==
    (cpc = "decoded" /\ cResult.kind = "return") => IsAssignmentList(cResult.value)

FirstGiver(as, id) ==
    CHOOSE i \in 1..Len(as) :
        as[i].giverId = id /\ \A k \in 1..(i - 1) : as[k].giverId # id

-----------------------------------------------------------------------------
(* lib/clues.ts: clue statements and the three candidate generators *)

\* a clue text: the template it was written from and the numbers put into it
Text(t, a, b) == [t |-> t, a |-> a, b |-> b]

Clue(text, type, difficulty) == [text |-> text, type |-> type, difficulty |-> difficulty]

When(cond, clue) == IF cond THEN <<clue>> ELSE <<>>

SetMin(S) == CHOOSE x \in S : \A y \in S : x <= y

SetMax(S) == CHOOSE x \in S : \A y \in S : y <= x

\* participantMap.has(id) and participantMap.get(id)
MapHas(ps, id) == \E i \in 1..Len(ps) : ps[i].id = id

MapGet(ps, id) == ps[CHOOSE i \in 1..Len(ps) : ps[i].id = id]

\* participantMap.get(id)?.yearMoved || 0
YearOrZero(ps, id) == IF MapHas(ps, id) THEN MapGet(ps, id).yearMoved ELSE 0

BothKnown(ps, a) == MapHas(ps, a.giverId) /\ MapHas(ps, a.receiverId)

\* the number of assignments whose giver and receiver are known and have these genders
GenderPairs(assignments, ps, from, to) ==
    Cardinality({i \in 1..Len(assignments) :
        /\ BothKnown(ps, assignments[i])
        /\ MapGet(ps, assignments[i].giverId).gender = from
        /\ MapGet(ps, assignments[i].receiverId).gender = to})

\* isGenderPatternObvious(pattern), a closure of generateGenderGiftingClues
isGenderPatternObvious(pattern, ps, exclusions) ==
    LET namesOf(gender) == {ps[i].name : i \in {k \in 1..Len(ps) : ps[k].gender = gender}}
        countOf(gender) == Cardinality({k \in 1..Len(ps) : ps[k].gender = gender})
        bothAmong(names) ==
            \E k \in 1..Len(exclusions) :
                exclusions[k].participant1 \in names /\ exclusions[k].participant2 \in names
    IN  IF pattern = "women are giving gifts to other women" /\ countOf("female") = 2
        THEN bothAmong(namesOf("female"))
        ELSE IF pattern = "men are giving gifts to other men" /\ countOf("male") = 2
        THEN bothAmong(namesOf("male"))
        ELSE FALSE

\* the same generator in both variants of clues.ts
generateGenderGiftingClues(assignments, ps, exclusions) ==
    LET menToWomen == GenderPairs(assignments, ps, "male", "female")
        womenToMen == GenderPairs(assignments, ps, "female", "male")
        menToMen == GenderPairs(assignments, ps, "male", "male")
        womenToWomen == GenderPairs(assignments, ps, "female", "female")
        obvious(pattern) == isGenderPatternObvious(pattern, ps, exclusions)
    IN  (IF menToWomen = 0 /\ ~obvious("men to women")
         THEN <<Clue(Text("No men are giving gifts to women", 0, 0), "gender", "medium")>>
         ELSE IF menToWomen = 1
         THEN <<Clue(Text("Exactly one man is giving a gift to a woman", 0, 0),
                     "gender", "easy")>>
         ELSE IF menToWomen > 1
         THEN <<Clue(Text("N men are giving gifts to women", menToWomen, 0),
                     "gender", "easy")>>
         ELSE <<>>)
        \o
        (IF womenToMen = 0 /\ ~obvious("women to men")
         THEN <<Clue(Text("No women are giving gifts to men", 0, 0), "gender", "medium")>>
         ELSE IF womenToMen = 1
         THEN <<Clue(Text("Exactly one woman is giving a gift to a man", 0, 0),
                     "gender", "easy")>>
         ELSE IF womenToMen > 1
         THEN <<Clue(Text("N women are giving gifts to men", womenToMen, 0),
                     "gender", "easy")>>
         ELSE <<>>)
        \o
        When(menToMen = 0 /\ ~obvious("men are giving gifts to other men"),
             Clue(Text("No men are giving gifts to other men", 0, 0), "gender", "medium"))
        \o
        When(womenToWomen = 0 /\ ~obvious("women are giving gifts to other women"),
             Clue(Text("No women are giving gifts to other women", 0, 0),
                  "gender", "medium"))

\* assignments.map(...).filter(a => a.giver && a.receiver)
YearAssignments(assignments, ps) ==
    LET known == SelectSeq(assignments, LAMBDA a : BothKnown(ps, a))
    IN  [i \in 1..Len(known) |->
            [giverYear |-> YearOrZero(ps, known[i].giverId),
             receiverYear |-> YearOrZero(ps, known[i].receiverId),
             giverId |-> known[i].giverId,
             receiverId |-> known[i].receiverId]]

\* the clues about the only earliest and the only latest mover, in both variants
ExtremeMoverClues(ya, ps) ==
    IF ps = <<>> THEN <<>>
    ELSE
    LET years == {ps[i].yearMoved : i \in 1..Len(ps)}
        earliestYear == SetMin(years)
        latestYear == SetMax(years)
        earliestMovers == {i \in 1..Len(ps) : ps[i].yearMoved = earliestYear}
        latestMovers == {i \in 1..Len(ps) : ps[i].yearMoved = latestYear}
        gives(id) == {k \in 1..Len(ya) : ya[k].giverId = id}
        receives(id) == {k \in 1..Len(ya) : ya[k].receiverId = id}
        earliestId == ps[CHOOSE i \in earliestMovers : TRUE].id
        latestId == ps[CHOOSE i \in latestMovers : TRUE].id
    IN  (IF Cardinality(earliestMovers) = 1 /\ gives(earliestId) # {}
         THEN LET a == ya[SetMin(gives(earliestId))]
              IN  When(a.receiverYear # earliestYear,
                       Clue(Text("The longest Montreal resident (since A) is giving to someone who arrived in B",
                                 earliestYear, a.receiverYear), "year", "medium"))
         ELSE <<>>)
        \o
        (IF Cardinality(latestMovers) = 1 /\ receives(latestId) # {}
         THEN LET a == ya[SetMin(receives(latestId))]
              IN  When(a.giverYear # latestYear,
                       Clue(Text("The newest Montreal resident (arrived A) is receiving from someone who moved in B",
                                 latestYear, a.giverYear), "year", "medium"))
         ELSE <<>>)

NoSameYearText ==
    Text("No one is giving a gift to someone who moved to Montreal in the same year as them", 0, 0)

OneSameYearText ==
    Text("Exactly one person is giving a gift to someone who moved to Montreal in the same year as them", 0, 0)

NSameYearText(n) ==
    Text("N people are giving gifts to someone who moved to Montreal in the same year as them", n, 0)

NoOlderToNewerText ==
    Text("No longtime Montreal residents are giving gifts to newer residents", 0, 0)

NoNewerToOlderText ==
    Text("No newer Montreal residents are giving gifts to longtime residents", 0, 0)

\* generateYearGiftingClues of the 10-clue variant
generateYearGiftingClues10(assignments, ps) ==
    LET ya == YearAssignments(assignments, ps)
        uniqueYears == {ya[k].giverYear : k \in 1..Len(ya)}
                           \cup {ya[k].receiverYear : k \in 1..Len(ya)}
        sameYearCount == Cardinality({k \in 1..Len(ya) : ya[k].giverYear = ya[k].receiverYear})
        olderToNewer == Cardinality({k \in 1..Len(ya) : ya[k].giverYear < ya[k].receiverYear})
        newerToOlder == Cardinality({k \in 1..Len(ya) : ya[k].giverYear > ya[k].receiverYear})
    IN  ExtremeMoverClues(ya, ps)
        \o
        (IF Cardinality(uniqueYears) >= 3
         THEN (IF sameYearCount = 0 THEN <<Clue(NoSameYearText, "year", "easy")>>
               ELSE IF sameYearCount = 1 THEN <<Clue(OneSameYearText, "year", "medium")>>
               ELSE IF sameYearCount > 1 /\ sameYearCount < Len(ya) - 1
               THEN <<Clue(NSameYearText(sameYearCount), "year", "hard")>>
               ELSE <<>>)
              \o When(olderToNewer = 0 /\ Len(ya) >= 4,
                      Clue(NoOlderToNewerText, "year", "medium"))
              \o When(newerToOlder = 0 /\ Len(ya) >= 4,
                      Clue(NoNewerToOlderText, "year", "medium"))
         ELSE <<>>)

\* generateYearGiftingClues of the 3-clue variant
generateYearGiftingClues3(assignments, ps) ==
    LET ya == YearAssignments(assignments, ps)
        sameYearCount == Cardinality({k \in 1..Len(ya) : ya[k].giverYear = ya[k].receiverYear})
        olderToNewer == Cardinality({k \in 1..Len(ya) : ya[k].giverYear < ya[k].receiverYear})
        newerToOlder == Cardinality({k \in 1..Len(ya) : ya[k].giverYear > ya[k].receiverYear})
    IN  ExtremeMoverClues(ya, ps)
        \o (IF sameYearCount = 0 THEN <<Clue(NoSameYearText, "year", "easy")>>
            ELSE IF sameYearCount = 1 THEN <<Clue(OneSameYearText, "year", "medium")>>
            ELSE <<Clue(NSameYearText(sameYearCount), "year", "hard")>>)
        \o When(olderToNewer = 0, Clue(NoOlderToNewerText, "year", "medium"))
        \o When(newerToOlder = 0, Clue(NoNewerToOlderText, "year", "medium"))

\* assignments.map(...).filter(a => a.giver && a.receiver && a.giverYear !== a.receiverYear)
CrossYearAssignments(assignments, ps) ==
    SelectSeq(YearAssignments(assignments, ps), LAMBDA a : a.giverYear # a.receiverYear)

Abs(n) == IF n < 0 THEN 0 - n ELSE n

YearToYearText(from, to) ==
    Text("Someone who moved to Montreal in A is giving to someone who arrived in B", from, to)

\* the clue about the year band between the oldest and the newest year, in both variants
MiddleYearClues(assignments, ps) ==
    LET years == {ps[i].yearMoved : i \in 1..Len(ps)}
    IN  IF Cardinality(years) < 3 THEN <<>>
        ELSE LET oldestYear == SetMin(years)
                 newestYear == SetMax(years)
                 middleYears == years \ {oldestYear, newestYear}
                 someoneGivingToMiddle ==
                     \E k \in 1..Len(assignments) :
                         YearOrZero(ps, assignments[k].receiverId) \in middleYears
             IN  When(middleYears # {} /\ someoneGivingToMiddle,
                      Clue(Text("At least one person is giving to someone who moved to Montreal between A and B",
                                oldestYear + 1, newestYear - 1), "year", "medium"))

\* generateSpecificPatternClues looking for a gift into the middle years only
\* at the assignment it drew
generateSpecificPatternCluesDrawnOnly(assignments, ps, pick) ==
    LET ya == CrossYearAssignments(assignments, ps)
    IN  MiddleYearClues(IF Len(ya) > 0 THEN <<ya[((pick - 1) % Len(ya)) + 1]>> ELSE <<>>, ps)

\* generateSpecificPatternClues of the 10-clue variant; pick is the index drawn
\* by Math.floor(Math.random() * yearAssignments.length), counted from 1
generateSpecificPatternClues10(assignments, ps, pick) ==
    LET ya == CrossYearAssignments(assignments, ps)
        uniqueGiverYears == {ya[k].giverYear : k \in 1..Len(ya)}
        uniqueReceiverYears == {ya[k].receiverYear : k \in 1..Len(ya)}
    IN  (IF Len(ya) > 0 /\ Cardinality(uniqueGiverYears) >= 2
                /\ Cardinality(uniqueReceiverYears) >= 2
         THEN LET randomAssignment == ya[((pick - 1) % Len(ya)) + 1]
                  yearGap == Abs(randomAssignment.giverYear - randomAssignment.receiverYear)
                  sameYearGivers ==
                      {k \in 1..Len(ya) : ya[k].giverYear = randomAssignment.giverYear}
              IN  When(yearGap > 1 /\ (Cardinality(sameYearGivers) > 1
                                           \/ Cardinality(uniqueGiverYears) > 2),
                       Clue(YearToYearText(randomAssignment.giverYear,
                                           randomAssignment.receiverYear), "year", "hard"))
         ELSE <<>>)
        \o MiddleYearClues(assignments, ps)

\* generateSpecificPatternClues of the 3-clue variant
generateSpecificPatternClues3(assignments, ps, pick) ==
    LET ya == CrossYearAssignments(assignments, ps)
    IN  (IF Len(ya) > 0
         THEN LET randomAssignment == ya[((pick - 1) % Len(ya)) + 1]
                  yearGap == Abs(randomAssignment.giverYear - randomAssignment.receiverYear)
              IN  When(yearGap > 1,
                       Clue(YearToYearText(randomAssignment.giverYear,
                                           randomAssignment.receiverYear), "year", "hard"))
         ELSE <<>>)
        \o MiddleYearClues(assignments, ps)

Prefix(seq, n) == SubSeq(seq, 1, IF n < Len(seq) THEN n ELSE Len(seq))

\* the years of the participants in ascending order (participants.map(...).sort())
RECURSIVE SortedYears(_, _)
SortedYears(ps, left) ==
    IF left = {} THEN <<>>
    ELSE LET i == CHOOSE k \in left : \A m \in left :
                      \/ ps[k].yearMoved < ps[m].yearMoved
                      \/ (ps[k].yearMoved = ps[m].yearMoved /\ k <= m)
         IN  <<ps[i].yearMoved>> \o SortedYears(ps, left \ {i})

RECURSIVE Sum(_)
Sum(seq) == IF seq = <<>> THEN 0 ELSE Head(seq) + Sum(Tail(seq))

\* Math.round(total / count) for total >= 0 and count > 0
RoundedQuotient(total, count) == (2 * total + count) \div (2 * count)

\* generateBackupClues of the 3-clue variant
generateBackupClues(assignments, ps, needed) ==
    LET crossGenderCount ==
            Cardinality({k \in 1..Len(assignments) :
                /\ BothKnown(ps, assignments[k])
                /\ MapGet(ps, assignments[k].giverId).gender
                       # MapGet(ps, assignments[k].receiverId).gender})
        allDifferences ==
            [k \in 1..Len(assignments) |->
                Abs(YearOrZero(ps, assignments[k].giverId)
                        - YearOrZero(ps, assignments[k].receiverId))]
        yearDifferences == SelectSeq(allDifferences, LAMBDA d : d > 0)
        allYears == SortedYears(ps, 1..Len(ps))
        medianYear == allYears[(Len(allYears) \div 2) + 1]
        oldTimersGivingToNewcomers ==
            IF ps = <<>> THEN 0
            ELSE Cardinality({k \in 1..Len(assignments) :
                    /\ BothKnown(ps, assignments[k])
                    /\ MapGet(ps, assignments[k].giverId).yearMoved < medianYear
                    /\ MapGet(ps, assignments[k].receiverId).yearMoved >= medianYear})
        clues ==
            When(needed > 0 /\ crossGenderCount > 0,
                 Clue(Text("N people are giving gifts to someone of a different gender",
                           crossGenderCount, 0), "gender", "easy"))
            \o When(needed > 1 /\ Len(yearDifferences) > 0,
                 Clue(Text("The average time difference between when gift-givers and receivers moved to Montreal is N years",
                           RoundedQuotient(Sum(yearDifferences),
                                           IF yearDifferences = <<>> THEN 1
                                           ELSE Len(yearDifferences)), 0),
                      "year", "medium"))
            \o When(needed > 2 /\ oldTimersGivingToNewcomers > 0,
                 Clue(Text("N Montreal veterans (arrived before A) are giving to newcomers",
                           oldTimersGivingToNewcomers,
                           IF ps = <<>> THEN 0 ELSE medianYear), "year", "hard"))
    IN  Prefix(clues, needed)

-----------------------------------------------------------------------------
(* The population analysis and the obviousness filter of the 10-clue variant *)

\* count / total >= 0.7 in place of count / total > 0.7
ExceedsShareInclusive(count, total) == 10 * count >= 7 * total

\* count / total > 0.7
ExceedsShare(count, total) == 10 * count > 7 * total

analyzeParticipantDistribution(ps, exclusions) ==
    LET years == {ps[i].yearMoved : i \in 1..Len(ps)}
        countOf(year) == Cardinality({i \in 1..Len(ps) : ps[i].yearMoved = year})
        males == Cardinality({i \in 1..Len(ps) : ps[i].gender = "male"})
        females == Cardinality({i \in 1..Len(ps) : ps[i].gender = "female"})
        \* Math.max of no numbers is -Infinity; -1 stands for it
        mostCommonYearCount == IF ps = <<>> THEN -1 ELSE SetMax({countOf(y) : y \in years})
        \* the first year, in order of first appearance, that has the highest count
        first == IF ps = <<>> THEN 0
                 ELSE SetMin({i \in 1..Len(ps) : countOf(ps[i].yearMoved) = mostCommonYearCount})
    IN  [ genderDistribution |-> [male |-> males, female |-> females],
          mostCommonYear |-> IF ps = <<>> THEN 0 ELSE ps[first].yearMoved,
          mostCommonYearCount |-> mostCommonYearCount,
          uniqueYears |-> Cardinality(years),
          totalParticipants |-> Len(ps),
          excludedPairsCount |-> Len(exclusions),
          \* mostCommonYearCount / participants.length > 0.7
          isYearDistributionSkewed |->
              ps # <<>> /\ ExceedsShare(mostCommonYearCount, Len(ps)),
          isGenderBalanced |-> Abs(males - females) <= 1 ]

\* the templates whose lower-cased text contains 'different year', 'same year'
\* or 'who moved to montreal in the same year as them'
SameOrDifferentYearTexts == {NoSameYearText.t, OneSameYearText.t, NSameYearText(0).t}

\* the templates whose lower-cased text contains 'there are' and 'people'
ThereArePeopleTexts == {"There are N people participating in this Secret Santa"}

\* Array.from(participantMap.values()).find(p => p.name === name)?.yearMoved === year
NamedMovedIn(ps, name, year) ==
    LET hits == {i \in 1..Len(ps) : ps[i].name = name}
    IN  hits # {} /\ ps[SetMin(hits)].yearMoved = year

\* isClueObvious suppressing gender clues from 80% on
isClueObviousFromEighty(clue, ps, analysis, exclusions) ==
    LET excludedPairsInMajorityYear ==
            Cardinality({k \in 1..Len(exclusions) :
                /\ NamedMovedIn(ps, exclusions[k].participant1, analysis.mostCommonYear)
                /\ NamedMovedIn(ps, exclusions[k].participant2, analysis.mostCommonYear)})
        male == analysis.genderDistribution.male
        female == analysis.genderDistribution.female
        totalGender == male + female
        most == IF male > female THEN male ELSE female
    IN  \/ /\ clue.type = "year"
           /\ \/ /\ analysis.isYearDistributionSkewed
                 /\ clue.text.t \in SameOrDifferentYearTexts
                 \* excludedPairsInMajorityYear >= analysis.excludedPairsCount * 0.5
                 /\ 2 * excludedPairsInMajorityYear >= analysis.excludedPairsCount
              \/ analysis.uniqueYears <= 2
        \/ /\ clue.type = "gender"
           /\ \/ (totalGender > 0 /\ 10 * most >= 8 * totalGender)
              \/ (analysis.excludedPairsCount > 0 /\ totalGender <= 4)
        \/ /\ clue.type = "count"
           /\ analysis.totalParticipants <= 4
           /\ clue.text.t \in ThereArePeopleTexts

isClueObvious(clue, ps, analysis, exclusions) ==
    LET excludedPairsInMajorityYear ==
            Cardinality({k \in 1..Len(exclusions) :
                /\ NamedMovedIn(ps, exclusions[k].participant1, analysis.mostCommonYear)
                /\ NamedMovedIn(ps, exclusions[k].participant2, analysis.mostCommonYear)})
        male == analysis.genderDistribution.male
        female == analysis.genderDistribution.female
        totalGender == male + female
        most == IF male > female THEN male ELSE female
    IN  \/ /\ clue.type = "year"
           /\ \/ /\ analysis.isYearDistributionSkewed
                 /\ clue.text.t \in SameOrDifferentYearTexts
                 \* excludedPairsInMajorityYear >= analysis.excludedPairsCount * 0.5
                 /\ 2 * excludedPairsInMajorityYear >= analysis.excludedPairsCount
              \/ analysis.uniqueYears <= 2
        \/ /\ clue.type = "gender"
           /\ \/ (totalGender > 0 /\ 10 * most > 8 * totalGender)
              \/ (analysis.excludedPairsCount > 0 /\ totalGender <= 4)
        \/ /\ clue.type = "count"
           /\ analysis.totalParticipants <= 4
           /\ clue.text.t \in ThereArePeopleTexts

-----------------------------------------------------------------------------
(* The backfill statistics of the 10-clue variant *)

\* name.length, the number of [aeiou] matches in name.toLowerCase(), and the
\* position of name.toLowerCase() in string order, for the names of PersonNames
NameLengths == <<3, 3, 4, 3, 3, 4, 3, 3, 3, 2, 3, 3, 3, 3>>

NameVowels == <<1, 1, 2, 1, 2, 1, 1, 1, 2, 1, 1, 2, 1, 1>>

NameOrder == <<1, 2, 3, 4, 5, 6, 7, 8, 9, 10, 11, 12, 13, 14>>

NameIndex(name) == CHOOSE i \in 1..Len(PersonNames) : PersonNames[i] = name

\* participants.sort((a, b) => b.yearMoved - a.yearMoved).slice(0, count), as ids
MostRecentArrivals(ps, count) ==
    LET before(i) == Cardinality({k \in 1..Len(ps) :
                        \/ ps[k].yearMoved > ps[i].yearMoved
                        \/ (ps[k].yearMoved = ps[i].yearMoved /\ k < i)})
    IN  {ps[i].id : i \in {k \in 1..Len(ps) : before(k) < count}}

generateSmartBackupClues(assignments, ps, analysis, exclusions, needed) ==
    LET known == SelectSeq(assignments, LAMBDA a : BothKnown(ps, a))
        giverName(a) == NameIndex(MapGet(ps, a.giverId).name)
        receiverName(a) == NameIndex(MapGet(ps, a.receiverId).name)
        alphabeticalGiving ==
            Len(SelectSeq(known, LAMBDA a : NameOrder[giverName(a)] < NameOrder[receiverName(a)]))
        longToShortNames ==
            Len(SelectSeq(known, LAMBDA a : NameLengths[giverName(a)] > NameLengths[receiverName(a)]))
        allGaps ==
            [k \in 1..Len(assignments) |->
                IF BothKnown(ps, assignments[k])
                THEN Abs(MapGet(ps, assignments[k].giverId).yearMoved
                             - MapGet(ps, assignments[k].receiverId).yearMoved)
                ELSE 0]
        yearGaps == SelectSeq(allGaps, LAMBDA gap : gap > 0)
        maxGap == IF yearGaps = <<>> THEN 0
                  ELSE SetMax({yearGaps[k] : k \in 1..Len(yearGaps)})
        uniqueDomains == {ps[i].email : i \in 1..Len(ps)}
        domainCount(d) == Cardinality({i \in 1..Len(ps) : ps[i].email = d})
        mostCommonDomainCount ==
            IF uniqueDomains = {} THEN 0 ELSE SetMax({domainCount(d) : d \in uniqueDomains})
        vowelCounts == [i \in 1..Len(ps) |-> NameVowels[NameIndex(ps[i].name)]]
        \* Math.round(avgVowels * 10), in tenths; -1 stands for NaN
        avgVowelTenths ==
            IF ps = <<>> THEN -1 ELSE RoundedQuotient(10 * Sum(vowelCounts), Len(ps))
        \* Math.ceil(participants.length / 3)
        recentArrivals == MostRecentArrivals(ps, (Len(ps) + 2) \div 3)
        recentArrivalsReceiving ==
            Len(SelectSeq(assignments, LAMBDA a : a.receiverId \in recentArrivals))
        clues ==
            When(needed > 0 /\ analysis.totalParticipants >= 5
                     /\ alphabeticalGiving > 0
                     /\ alphabeticalGiving # analysis.totalParticipants,
                 Clue(Text("N people are giving gifts to someone whose name comes later in the alphabet",
                           alphabeticalGiving, 0), "specific", "hard"))
            \o When(needed > 1 /\ longToShortNames > 0,
                 Clue(Text("N people with longer names are giving gifts to someone with a shorter name",
                           longToShortNames, 0), "specific", "hard"))
            \o When(needed > 2 /\ ~analysis.isYearDistributionSkewed /\ maxGap >= 2,
                 Clue(Text("The biggest time gap between a gift-giver and receiver's Montreal arrival dates is N years",
                           maxGap, 0), "year", "hard"))
            \o When(needed > 3 /\ Cardinality(uniqueDomains) > 1
                               /\ Cardinality(uniqueDomains) < Len(ps),
                 Clue(Text("N participants share the same email provider",
                           mostCommonDomainCount, 0), "specific", "medium"))
            \o When(needed > 4,
                 Clue(Text("The average number of vowels in participants' names is N",
                           avgVowelTenths, 0), "specific", "medium"))
            \o When(needed > 5 /\ recentArrivalsReceiving > 0,
                 Clue(Text("N of the most recent Montreal arrivals are receiving gifts",
                           recentArrivalsReceiving, 0), "year", "medium"))
        nonObviousBackups ==
            SelectSeq(clues, LAMBDA clue : ~isClueObvious(clue, ps, analysis, exclusions))
    IN  Prefix(nonObviousBackups, needed)

-----------------------------------------------------------------------------
(* generateClues, in its 10-clue and its 3-clue variant *)

TargetCount10 == 10

TargetCount3 == 3

\* the property of an element of the decoded list, as the key of participantMap.get
IdField(o, key) ==
    LET f == GetField(o, key) IN IF f.j = "str" THEN f.v ELSE "undefined"

\* the decoded value as the generators walk it: a value that is not a list, or
\* a null element, raises a TypeError; other elements are read field by field
AsAssignments(val) ==
    IF val.j # "arr" \/ \E i \in 1..Len(val.v) : val.v[i].j \in {"null", "undefined"}
    THEN Throw("TypeError")
    ELSE Return([i \in 1..Len(val.v) |->
                    [giverId |-> IdField(val.v[i], "giverId"),
                     receiverId |-> IdField(val.v[i], "receiverId")]])

\* an outcome of array.sort(() => Math.random() - 0.5): the list rotated by
\* turn places, and reversed when flip holds
Reordered(seq, turn, flip) ==
    LET n == Len(seq)
        rotated == [i \in 1..n |-> seq[((i + turn - 1) % n) + 1]]
    IN  IF flip THEN [i \in 1..n |-> rotated[n + 1 - i]] ELSE rotated

MainCandidates10(assignments, ps, exclusions, pick) ==
    generateGenderGiftingClues(assignments, ps, exclusions)
        \o generateYearGiftingClues10(assignments, ps)
        \o generateSpecificPatternClues10(assignments, ps, pick)

MainCandidates3(assignments, ps, exclusions, pick) ==
    generateGenderGiftingClues(assignments, ps, exclusions)
        \o generateYearGiftingClues3(assignments, ps)
        \o generateSpecificPatternClues3(assignments, ps, pick)

\* the 10-clue generateClues putting the backfill before the main clues
generateClues10BackfillFirst(encryptedAssignments, ps, exclusions, pick, turn, flip) ==
    LET dec == decryptAssignments(encryptedAssignments)
    IN  IF dec.kind = "throw" THEN dec
        ELSE LET walked == AsAssignments(dec.value)
             IN  IF walked.kind = "throw" THEN walked
                 ELSE LET assignments == walked.value
                          participantAnalysis == analyzeParticipantDistribution(ps, exclusions)
                          allClues == MainCandidates10(assignments, ps, exclusions, pick)
                          nonObviousClues ==
                              SelectSeq(allClues, LAMBDA clue :
                                  ~isClueObvious(clue, ps, participantAnalysis, exclusions))
                          shuffled == Reordered(nonObviousClues, turn, flip)
                          filled ==
                              IF Len(shuffled) < TargetCount10
                              THEN generateSmartBackupClues(assignments, ps,
                                       participantAnalysis, exclusions,
                                       TargetCount10 - Len(shuffled)) \o shuffled
                              ELSE shuffled
                      IN  Return(Prefix(filled, TargetCount10))

generateClues10(encryptedAssignments, ps, exclusions, pick, turn, flip) ==
    LET dec == decryptAssignments(encryptedAssignments)
    IN  IF dec.kind = "throw" THEN dec
        ELSE LET walked == AsAssignments(dec.value)
             IN  IF walked.kind = "throw" THEN walked
                 ELSE LET assignments == walked.value
                          participantAnalysis == analyzeParticipantDistribution(ps, exclusions)
                          allClues == MainCandidates10(assignments, ps, exclusions, pick)
                          nonObviousClues ==
                              SelectSeq(allClues, LAMBDA clue :
                                  ~isClueObvious(clue, ps, participantAnalysis, exclusions))
                          shuffled == Reordered(nonObviousClues, turn, flip)
                          filled ==
                              IF Len(shuffled) < TargetCount10
                              THEN shuffled \o generateSmartBackupClues(assignments, ps,
                                       participantAnalysis, exclusions,
                                       TargetCount10 - Len(shuffled))
                              ELSE shuffled
                      IN  Return(Prefix(filled, TargetCount10))

\* the 3-clue generateClues up to its return statement
FilledClues3(assignments, ps, exclusions, pick, turn, flip) ==
    LET allClues == MainCandidates3(assignments, ps, exclusions, pick)
        shuffled == Reordered(allClues, turn, flip)
    IN  IF Len(shuffled) < TargetCount3
        THEN shuffled \o generateBackupClues(assignments, ps, TargetCount3 - Len(shuffled))
        ELSE shuffled

\* the return statement of the 3-clue generateClues without its slice
ReturnedClues3Unsliced(filled) == filled

ReturnedClues3(filled) == Prefix(filled, TargetCount3)

\* the 3-clue generateClues failing on an empty participant list
generateClues3NeedingPeople(encryptedAssignments, ps, exclusions, pick, turn, flip) ==
    LET dec == decryptAssignments(encryptedAssignments)
    IN  IF dec.kind = "throw" THEN dec
        ELSE LET walked == AsAssignments(dec.value)
             IN  IF walked.kind = "throw" THEN walked
                 ELSE IF ps = <<>> THEN Throw("TypeError")
                 ELSE Return(ReturnedClues3(
                          FilledClues3(walked.value, ps, exclusions, pick, turn, flip)))

generateClues3(encryptedAssignments, ps, exclusions, pick, turn, flip) ==
    LET dec == decryptAssignments(encryptedAssignments)
    IN  IF dec.kind = "throw" THEN dec
        ELSE LET walked == AsAssignments(dec.value)
             IN  IF walked.kind = "throw" THEN walked
                 ELSE Return(ReturnedClues3(
                          FilledClues3(walked.value, ps, exclusions, pick, turn, flip)))

-----------------------------------------------------------------------------
(* Clue scenarios: one call of generateClues on a token, a population and exclusions *)

\* the first n people with these genders and arrival years
People(n, genders, years) ==
    [i \in 1..n |-> [id |-> PersonIds[i], name |-> PersonNames[i],
                     email |-> PersonDomains[i],
                     gender |-> genders[i], yearMoved |-> years[i]]]

\* populations of n people: arrival years in roster order, any one of the
\* genders for the last person and male or female for the others
Populations(n) ==
    {People(n, g, y) :
        g \in {h \in [1..n -> {"male", "female", "other"}] : \A i \in 1..n : h[i] = "other" => i = n},
        y \in {z \in [1..n -> {2015, 2016, 2020}] : \A i \in 1..n : i < n => z[i] <= z[i + 1]}}

\* the draw in which everyone gives to the next person of the roster
RingDraw(ps) ==
    [i \in 1..Len(ps) |-> [giverId |-> ps[i].id, receiverId |-> ps[(i % Len(ps)) + 1].id]]

\* the assignment lists in which everyone in ps gives to someone else in ps
DerangementLists(ps) ==
    {[i \in 1..Len(ps) |-> [giverId |-> ps[i].id, receiverId |-> ps[f[i]].id]] :
        f \in {h \in IndexPermutations(Len(ps)) : \A i \in 1..Len(ps) : h[i] # i}}

\* tokens handed to generateClues: encrypted draws for ps, an encrypted empty
\* list, a draw naming someone outside ps, the draw p1 -> p2 -> p3 -> p1 whoever
\* is in ps, a token that does not open, and a token that opens to null
ClueTokens(ps) ==
    {encryptAssignments(as, "s1") : as \in DerangementLists(ps)}
    \cup { encryptAssignments(<<>>, "s1"),
           encryptAssignments(<<[giverId |-> "p1", receiverId |-> "nobody"]>>, "s1"),
           encryptAssignments(RingDraw(Roster(3)), "s1"),
           Corrupt("s2"),
           AESEncrypt(<<Tok("null")>>, ENCRYPTION_KEY, "s1") }

\* no exclusion, or the first two people of the roster as one exclusion pair
ClueExclusions(ps) ==
    {<<>>} \cup
    {<<[participant1 |-> ps[i].name, participant2 |-> ps[i + 1].name]>> :
        i \in {k \in {1} : k < Len(ps)}}

\* count copies of year
Repeat(year, count) == [i \in 1..count |-> year]

\* larger populations, by the sizes of their arrival-year groups: 5 of 6 in one
\* year, 4 of 5, 7 of 10, 5 of 7 with one earlier and one later arrival, and
\* 10 of 14 with two earlier and two later arrivals; women and men alternate,
\* or, among at most 6 people, the first is the only woman
GroupedPopulations ==
    LET GroupedYears ==
            { Repeat(2015, 1) \o Repeat(2020, 5),
              Repeat(2015, 4) \o Repeat(2020, 1),
              Repeat(2015, 7) \o Repeat(2020, 3),
              Repeat(2015, 1) \o Repeat(2018, 5) \o Repeat(2020, 1),
              Repeat(2015, 2) \o Repeat(2018, 10) \o Repeat(2020, 2) }
    IN  {People(Len(y), [i \in 1..Len(y) |-> PersonGenders[i]], y) : y \in GroupedYears}
        \cup {People(Len(y), [i \in 1..Len(y) |-> IF i = 1 THEN "female" ELSE "male"], y) :
                 y \in {z \in GroupedYears : Len(z) <= 6}}

\* the ring draw of ps and the draw in which everyone gives to the next person
\* of their own arrival year, a draw only when no one is alone in their year
GroupedTokens(ps) ==
    LET mates(i) == {k \in 1..Len(ps) : ps[k].yearMoved = ps[i].yearMoved}
        next(i) == IF \E k \in mates(i) : k > i
                   THEN SetMin({k \in mates(i) : k > i}) ELSE SetMin(mates(i))
        GroupRingDraw ==
            [i \in 1..Len(ps) |-> [giverId |-> ps[i].id, receiverId |-> ps[next(i)].id]]
    IN  {encryptAssignments(as, "s1") :
            as \in {d \in {RingDraw(ps), GroupRingDraw} : IsDerangementOf(d, ps)}}

\* no exclusion, a pair inside the largest year group, or the first and the
\* last person of the roster
GroupedExclusions(ps) ==
    LET year == analyzeParticipantDistribution(ps, <<>>).mostCommonYear
        first == SetMin({i \in 1..Len(ps) : ps[i].yearMoved = year})
    IN  { <<>>,
          <<[participant1 |-> ps[first].name, participant2 |-> ps[first + 1].name]>>,
          <<[participant1 |-> ps[1].name, participant2 |-> ps[Len(ps)].name]>> }

ClueInit ==
    /\ EngineIdle
    /\ EncoderIdle
    /\ ValidatorIdle
    /\ MailerIdle
    /\ ApiIdle
    /\ StoreIdle
    /\ \/ \E n \in 0..MaxCluePeople :
             /\ gParticipants \in Populations(n)
             /\ gToken \in ClueTokens(gParticipants)
             /\ gExclusions \in ClueExclusions(gParticipants)
       \/ /\ gParticipants \in GroupedPopulations
          /\ gToken \in GroupedTokens(gParticipants)
          /\ gExclusions \in GroupedExclusions(gParticipants)
    /\ gpc = "ready"
    /\ gVariant = 0
    /\ gResult = None

\* the values of Math.floor(Math.random() * yearAssignments.length) + 1 in
\* generateSpecificPatternClues; one value when the index is not drawn
Picks(encryptedAssignments, ps) ==
    LET dec == decryptAssignments(encryptedAssignments)
        walked == IF dec.kind = "throw" THEN dec ELSE AsAssignments(dec.value)
        drawn == IF walked.kind = "throw" THEN 0
                 ELSE Len(CrossYearAssignments(walked.value, ps))
    IN  1..(IF drawn = 0 THEN 1 ELSE drawn)

GenerateClues10 ==
    /\ gpc = "ready"
    /\ \E pick \in Picks(gToken, gParticipants), turn \in 0..(MaxTurn - 1), flip \in BOOLEAN :
          gResult' = generateClues10(gToken, gParticipants, gExclusions, pick, turn, flip)
    /\ gVariant' = TargetCount10
    /\ gpc' = "done"
    /\ UNCHANGED <<gToken, gParticipants, gExclusions>>
    /\ UNCHANGED <<engineVars, encoderVars, validatorVars, mailerVars, apiVars, storeVars>>

GenerateClues3 ==
    /\ gpc = "ready"
    /\ \E pick \in Picks(gToken, gParticipants), turn \in 0..(MaxTurn - 1), flip \in BOOLEAN :
          gResult' = generateClues3(gToken, gParticipants, gExclusions, pick, turn, flip)
    /\ gVariant' = TargetCount3
    /\ gpc' = "done"
    /\ UNCHANGED <<gToken, gParticipants, gExclusions>>
    /\ UNCHANGED <<engineVars, encoderVars, validatorVars, mailerVars, apiVars, storeVars>>

ClueSpec == ClueInit /\ [][GenerateClues10 \/ GenerateClues3]_vars

-----------------------------------------------------------------------------
(* Properties of generateClues *)

\* C10: a call of generateClues that returns, returns at most the target count
\* of its variant: at most 10 clues in the 10-clue variant and at most 3 in the
\* 3-clue variant, whatever the token opens to and however many main and
\* backfill candidates there were.
C10_AtMostTargetCount ==
    (gpc = "done" /\ gResult.kind = "return") =>
        /\ gVariant \in {TargetCount10, TargetCount3}
        /\ Len(gResult.value) <= gVariant

\* a 3-clue call on a draw among at least three people, with more than three
\* main candidates, returned three clues
C10_Witness ==
    /\ gpc = "done"
    /\ gVariant = TargetCount3
    /\ gResult.kind = "return"
    /\ Len(gResult.value) = TargetCount3
    /\ Len(gParticipants) >= 3
    /\ IsDerangementOf(Decoded(gToken), gParticipants)
    /\ Len(MainCandidates3(Decoded(gToken), gParticipants, gExclusions, 1)) > TargetCount3

\* the main candidates of a 10-clue call that survive isClueObvious, when the
\* specific-pattern generator draws index pick
SurvivingMain10(pick) ==
    LET analysis == analyzeParticipantDistribution(gParticipants, gExclusions)
    IN  SelectSeq(MainCandidates10(Decoded(gToken), gParticipants, gExclusions, pick),
                  LAMBDA clue : ~isClueObvious(clue, gParticipants, analysis, gExclusions))

\* the backfill statistics that apply to the population and survive
\* isClueObvious: what generateSmartBackupClues yields when every tier is open
ApplicableBackfill10 ==
    generateSmartBackupClues(Decoded(gToken), gParticipants,
        analyzeParticipantDistribution(gParticipants, gExclusions), gExclusions,
        TargetCount10)

\* C11: a 10-clue call whose surviving main candidates and applicable, surviving
\* backfill statistics number at least 10 together (whichever index the
\* specific-pattern generator draws) returns exactly 10 clues.
C11_FullTargetWhenEnoughCandidates ==
    (/\ gpc = "done"
     /\ gVariant = TargetCount10
     /\ gResult.kind = "return"
     /\ OpensToList(gToken)
     /\ \A pick \in Picks(gToken, gParticipants) :
            Len(SurvivingMain10(pick)) + Len(ApplicableBackfill10) >= TargetCount10)
        => Len(gResult.value) = TargetCount10

\* the number of participants whose gender is male or female
MaleAndFemale(ps) ==
    Cardinality({i \in 1..Len(ps) : ps[i].gender \in {"male", "female"}})

\* C12: in both variants, when there is at least one exclusion and at most 4
\* participants are male or female, a returning call returns no clue of type
\* 'gender'.
C12_NoGenderClueUnderExclusions ==
    (/\ gpc = "done"
     /\ gResult.kind = "return"
     /\ Len(gExclusions) >= 1
     /\ MaleAndFemale(gParticipants) <= 4)
        => \A k \in 1..Len(gResult.value) : gResult.value[k].type # "gender"

\* the statements about gifts between people of the same arrival year and
\* between longtime and newer residents
SameYearTexts == {NoSameYearText.t, OneSameYearText.t, NSameYearText(0).t}

CrossYearTexts == {NoOlderToNewerText.t, NoNewerToOlderText.t}

\* more than 70% of the participants share one arrival year
MajorityYearShare(ps) ==
    \E year \in {ps[i].yearMoved : i \in 1..Len(ps)} :
        10 * Cardinality({i \in 1..Len(ps) : ps[i].yearMoved = year}) > 7 * Len(ps)

\* the exclusion pairs whose two members both arrived in the majority year
PairsInMajorityYear(ps, exclusions) ==
    {k \in 1..Len(exclusions) :
        \E year \in {ps[i].yearMoved : i \in 1..Len(ps)} :
            /\ 10 * Cardinality({i \in 1..Len(ps) : ps[i].yearMoved = year}) > 7 * Len(ps)
            /\ \E i, j \in 1..Len(ps) :
                  /\ ps[i].name = exclusions[k].participant1
                  /\ ps[j].name = exclusions[k].participant2
                  /\ ps[i].yearMoved = year /\ ps[j].yearMoved = year}

\* C13: a 10-clue call on a population in which more than 70% share one arrival
\* year, and at least half of the exclusion pairs lie inside that year, returns
\* no same-year clue and no older-to-newer or newer-to-older clue, whatever the
\* number of distinct years.
C13_NoYearPhrasingWhenSkewed ==
    (/\ gpc = "done"
     /\ gVariant = TargetCount10
     /\ gResult.kind = "return"
     /\ MajorityYearShare(gParticipants)
     /\ 2 * Cardinality(PairsInMajorityYear(gParticipants, gExclusions)) >= Len(gExclusions))
        => \A k \in 1..Len(gResult.value) :
               gResult.value[k].text.t \notin (SameYearTexts \cup CrossYearTexts)

\* C14: for every non-empty participant list analyzeParticipantDistribution
\* reports the number of distinct arrival years, reports the year distribution
\* as skewed exactly when strictly more than 70% of the participants share one
\* year, and reports the genders as balanced exactly when the numbers of male
\* and of female participants differ by at most 1, other genders counting in
\* the total only.
C14_AnalysisReportsDistribution ==
    LET ps == gParticipants
        analysis == analyzeParticipantDistribution(ps, gExclusions)
        firstOfYear == {i \in 1..Len(ps) : \A k \in 1..(i - 1) : ps[k].yearMoved # ps[i].yearMoved}
        males == Len(SelectSeq(ps, LAMBDA q : q.gender = "male"))
        females == Len(SelectSeq(ps, LAMBDA q : q.gender = "female"))
    IN  ps # <<>> =>
            /\ analysis.uniqueYears = Cardinality(firstOfYear)
            /\ analysis.isYearDistributionSkewed <=> MajorityYearShare(ps)
            /\ analysis.isGenderBalanced <=> (males - females \in {-1, 0, 1})
            /\ analysis.totalParticipants = Len(ps)
            /\ analysis.genderDistribution.male + analysis.genderDistribution.female <= Len(ps)

\* a 10-clue call has analysed 10 participants of whom exactly 7 share a year,
\* and the analysis does not call them skewed
C14_Witness ==
    /\ gpc = "done"
    /\ gVariant = TargetCount10
    /\ Len(gParticipants) = 10
    /\ \E year \in {gParticipants[i].yearMoved : i \in 1..Len(gParticipants)} :
           Cardinality({i \in 1..Len(gParticipants) : gParticipants[i].yearMoved = year}) = 7
    /\ ~analyzeParticipantDistribution(gParticipants, gExclusions).isYearDistributionSkewed

-----------------------------------------------------------------------------
(* lib/assignments.ts: validateAssignments, called on assignment lists over
   EncoderIds and on the first participants of the roster *)

validateAssignments(assignments, ps) ==
    LET givers == {assignments[i].giverId : i \in 1..Len(assignments)}
        receivers == {assignments[i].receiverId : i \in 1..Len(assignments)}
        participantIds == {ps[i].id : i \in 1..Len(ps)}
    IN  /\ Cardinality(givers) = Len(ps)
        /\ Cardinality(receivers) = Len(ps)
        /\ \A id \in givers : id \in participantIds
        /\ \A id \in receivers : id \in participantIds

ValidatorInit ==
    /\ EngineIdle
    /\ EncoderIdle
    /\ ClueIdle
    /\ MailerIdle
    /\ ApiIdle
    /\ StoreIdle
    /\ vpc = "ready"
    /\ vAssignments \in AssignmentLists(MaxValidated + 1)
    /\ \E n \in 0..MaxValidated : vParticipants = Roster(n)
    /\ vValid = FALSE

Validate ==
    /\ vpc = "ready"
    /\ vValid' = validateAssignments(vAssignments, vParticipants)
    /\ vpc' = "done"
    /\ UNCHANGED <<vAssignments, vParticipants>>
    /\ UNCHANGED <<engineVars, encoderVars, clueVars, mailerVars, apiVars, storeVars>>

ValidatorSpec == ValidatorInit /\ [][Validate]_vars

\* C15: validateAssignments returns true exactly when every participant id
\* occurs once as giverId and once as receiverId in the list and no other id
\* occurs; a list that repeats a giver or a receiver, or is longer than the
\* participant list, is rejected.
C15_ValidExactlyOncePerParticipant ==
    vpc = "done" =>
        (vValid <=>
            /\ \A id \in IdsOf(vParticipants) :
                  /\ Occurrences(vAssignments, "giverId", id) = 1
                  /\ Occurrences(vAssignments, "receiverId", id) = 1
            /\ \A i \in 1..Len(vAssignments) :
                  /\ vAssignments[i].giverId \in IdsOf(vParticipants)
                  /\ vAssignments[i].receiverId \in IdsOf(vParticipants))

-----------------------------------------------------------------------------
(* Further properties of generateClues *)

\* C17: a call of generateClues, in either variant, on a token that opens to
\* an assignment list returns a list and does not raise, whoever is in the
\* participant list (no one, or not the people the list names) and whatever
\* the exclusions.
C17_NeverRaisesOnValidToken ==
    (gpc = "done" /\ OpensToList(gToken)) =>
        /\ gResult.kind = "return"
        /\ Len(gResult.value) <= gVariant

\* a 3-clue call with no participants at all on the token of a draw among
\* three people has returned
C17_Witness ==
    /\ gpc = "done"
    /\ gVariant = TargetCount3
    /\ gParticipants = <<>>
    /\ Len(Decoded(gToken)) = 3
    /\ gResult.kind = "return"

-----------------------------------------------------------------------------
(* Further properties of generateAssignments *)

\* the draw in which person i of ps gives to person to[i]
DrawOf(ps, to) ==
    [i \in 1..Len(ps) |-> [giverId |-> ps[i].id, receiverId |-> ps[to[i]].id]]

\* A -> B -> C -> A and A -> C -> B -> A
ThreeCycles(ps) == {DrawOf(ps, <<2, 3, 1>>), DrawOf(ps, <<3, 1, 2>>)}

\* C19: for 3 participants and no exclusions, every set generateAssignments
\* returns is one of the two 3-cycles, and for each of the two 3-cycles some
\* outcome of the shuffle makes an attempt produce it.
C19_BothThreeCyclesAndOnlyThey ==
    (Len(participants) = 3 /\ constraints = <<>>) =>
        /\ pc = "returned" => Decoded(result) \in ThreeCycles(participants)
        /\ \A cycle \in ThreeCycles(participants) :
              \E js \in RandomChoices(3) :
                  attemptAssignment(participants, constraints, js) = Return(cycle)

\* a call for 3 participants without exclusions returned A -> C -> B -> A
C19_Witness ==
    /\ Len(participants) = 3
    /\ constraints = <<>>
    /\ pc = "returned"
    /\ Decoded(result) = DrawOf(participants, <<3, 1, 2>>)

\* the candidates other than the statement of generateSpecificPatternClues
\* about the years of the assignment it drew
WithoutYearToYear(clues) ==
    SelectSeq(clues, LAMBDA clue : clue.text.t # YearToYearText(0, 0).t)

Statements(clues) == {clues[k] : k \in 1..Len(clues)}

\* C20 as stated: for a fixed token, participant list and exclusion list the
\* set of candidate statements built before the shuffle is the same in every
\* call, whatever the random draws.
C20_AsStated ==
    (gpc = "done" /\ OpensToList(gToken)) =>
        \A pick, other \in Picks(gToken, gParticipants) :
            Statements(IF gVariant = TargetCount10
                       THEN MainCandidates10(Decoded(gToken), gParticipants, gExclusions, pick)
                       ELSE MainCandidates3(Decoded(gToken), gParticipants, gExclusions, pick))
          = Statements(IF gVariant = TargetCount10
                       THEN MainCandidates10(Decoded(gToken), gParticipants, gExclusions, other)
                       ELSE MainCandidates3(Decoded(gToken), gParticipants, gExclusions, other))

\* C20 as amended: for a fixed token, participant list and exclusion list the
\* candidates built before the shuffle are the same, in the same order, in
\* every call, except for the one statement naming the arrival years of the
\* cross-year assignment that generateSpecificPatternClues draws at random.
C20_OnlyDrawnYearStatementVaries ==
    LET draw == Decoded(gToken)
        candidates(pick) ==
            IF gVariant = TargetCount10
            THEN MainCandidates10(draw, gParticipants, gExclusions, pick)
            ELSE MainCandidates3(draw, gParticipants, gExclusions, pick)
        first == WithoutYearToYear(candidates(1))
    IN  (gpc = "done" /\ OpensToList(gToken)) =>
            \A pick \in Picks(gToken, gParticipants) :
                WithoutYearToYear(candidates(pick)) = first

\* a 10-clue call was made on arguments for which two draws build different
\* candidate lists
C20_Witness ==
    /\ gpc = "done"
    /\ gVariant = TargetCount10
    /\ gResult.kind = "return"
    /\ IsDerangementOf(Decoded(gToken), gParticipants)
    /\ \E pick, other \in Picks(gToken, gParticipants) :
           MainCandidates10(Decoded(gToken), gParticipants, gExclusions, pick)
             # MainCandidates10(Decoded(gToken), gParticipants, gExclusions, other)

-----------------------------------------------------------------------------
(* lib/email.ts: sendAssignmentEmails *)

\* !value
Falsy(value) ==
    \/ value.j \in {"null", "undefined"}
    \/ value.j = "str" /\ value.v = ""
    \/ value.j = "num" /\ value.v = "0"

\* the names generateEmailContent writes into the html and text of the message
generateEmailContent(giver, receiver) == [giver |-> giver.name, receiver |-> receiver.name]

\* one round of the loop that gives up on the first participant it cannot mail
LoopRoundGivingUp(receiverId, ps, i, outcome) ==
    LET participant == ps[i]
    IN  IF Falsy(receiverId) THEN [then |-> "break", sends |-> <<>>]
        ELSE IF ~(receiverId.j = "str" /\ MapHas(ps, receiverId.v))
        THEN [then |-> "break", sends |-> <<>>]
        ELSE LET emailContent == generateEmailContent(participant, MapGet(ps, receiverId.v))
             IN  [then |-> IF outcome = "data" THEN "continue" ELSE "throw",
                  sends |-> << [to |-> participant.email, content |-> emailContent,
                                outcome |-> outcome] >>]

\* one round of the loop for participants[i] once receiverId is looked up:
\* what follows it and the resend.emails.send call it makes; an error or
\* rejection is caught and logged
LoopRound(receiverId, ps, i, outcome) ==
    LET participant == ps[i]
    IN  IF Falsy(receiverId) THEN [then |-> "continue", sends |-> <<>>]
        ELSE IF ~(receiverId.j = "str" /\ MapHas(ps, receiverId.v))
        THEN [then |-> "continue", sends |-> <<>>]
        ELSE LET emailContent == generateEmailContent(participant, MapGet(ps, receiverId.v))
             IN  [then |-> "continue",
                  sends |-> << [to |-> participant.email, content |-> emailContent,
                                outcome |-> outcome] >>]

\* the tokens handed in: every string decryptAssignments can be handed under
\* the first salt, and the encrypted ring draw of each roster
MailerInit ==
    /\ EngineIdle
    /\ EncoderIdle
    /\ ClueIdle
    /\ ValidatorIdle
    /\ ApiIdle
    /\ StoreIdle
    /\ mpc = "called"
    /\ mConfigured \in BOOLEAN
    /\ mToken \in
          {Corrupt("s1")}
          \cup {Cipher(k, "s1", text) : k \in {ENCRYPTION_KEY, OtherKey}, text \in PlainTexts}
          \cup {encryptAssignments(RingDraw(Roster(n)), "s1") : n \in 2..MaxMailed}
    /\ \E n \in 0..MaxMailed : mParticipants = Roster(n)
    /\ mIndex = 0
    /\ mSends = <<>>
    /\ mError = ""

\* if (!process.env.RESEND_API_KEY) return; otherwise the loop starts at the
\* first participant
MailEnter ==
    /\ mpc = "called"
    /\ IF mConfigured THEN mpc' = "loop" /\ mIndex' = 1
                      ELSE mpc' = "returned" /\ mIndex' = mIndex
    /\ UNCHANGED <<mConfigured, mToken, mParticipants, mSends, mError>>
    /\ UNCHANGED <<engineVars, encoderVars, clueVars, validatorVars, apiVars, storeVars>>

\* one round of the loop; resend.emails.send answers with data, with an error,
\* or rejects
MailRound ==
    /\ mpc = "loop"
    /\ mIndex <= Len(mParticipants)
    /\ \E outcome \in {"data", "error", "rejected"},
          receiverId \in {getAssignmentForParticipant(mToken, mParticipants[mIndex].id).value} :
          LET round == LoopRound(receiverId, mParticipants, mIndex, outcome)
          IN  /\ mSends' = mSends \o round.sends
              /\ mpc' = CASE round.then = "continue" -> "loop"
                          [] round.then = "break" -> "returned"
                          [] OTHER -> "raised"
              /\ mError' = IF round.then = "throw" THEN outcome ELSE mError
    /\ mIndex' = mIndex + 1
    /\ UNCHANGED <<mConfigured, mToken, mParticipants>>
    /\ UNCHANGED <<engineVars, encoderVars, clueVars, validatorVars, apiVars, storeVars>>

MailReturn ==
    /\ mpc = "loop"
    /\ mIndex > Len(mParticipants)
    /\ mpc' = "returned"
    /\ UNCHANGED <<mConfigured, mToken, mParticipants, mIndex, mSends, mError>>
    /\ UNCHANGED <<engineVars, encoderVars, clueVars, validatorVars, apiVars, storeVars>>

MailerSpec == MailerInit /\ [][MailEnter \/ MailRound \/ MailReturn]_vars

\* the positions of the participants whose lookup in the token gives the id
\* of someone in the list, lowest first, and for each the receiver's position
RECURSIVE Mailable(_, _, _)
Mailable(token, ps, from) ==
    IF from > Len(ps) THEN <<>>
    ELSE LET receiverId == getAssignmentForParticipant(token, ps[from].id).value
             rest == Mailable(token, ps, from + 1)
         IN  IF receiverId.j = "str" /\ receiverId.v # "" /\ MapHas(ps, receiverId.v)
             THEN <<[giver |-> from,
                     receiver |-> CHOOSE r \in 1..Len(ps) : ps[r].id = receiverId.v]>>
                  \o rest
             ELSE rest

\* C18: with the mail service configured sendAssignmentEmails never raises and,
\* when it returns, it has made one send call for each participant whose
\* receiver the token gives and the list holds, in participant order and
\* whatever the outcomes of the earlier calls; the call for giver g is
\* addressed to g and names g and the participant whose id is g's receiverId.
C18_OneAttemptPerResolvedParticipant ==
    /\ mpc # "raised"
    /\ (mpc = "returned" /\ mConfigured) =>
          LET due == Mailable(mToken, mParticipants, 1)
          IN  /\ Len(mSends) = Len(due)
              /\ \A k \in 1..Len(due) :
                    /\ mSends[k].to = mParticipants[due[k].giver].email
                    /\ mSends[k].content.giver = mParticipants[due[k].giver].name
                    /\ mSends[k].content.receiver = mParticipants[due[k].receiver].name

\* a returned call over three participants that skipped one (no receiver in
\* the list), had a send fail and made a later send all the same
C18_Witness ==
    /\ mpc = "returned" /\ mConfigured
    /\ Len(mParticipants) = MaxMailed
    /\ Len(mSends) = 2
    /\ mSends[1].outcome # "data"
    /\ mSends[2].outcome = "data"
    /\ mSends[1].to = mParticipants[1].email
    /\ mSends[2].to = mParticipants[3].email

-----------------------------------------------------------------------------
(* app/api/games: the organizer's endpoints over the rows of one game *)

\* the { id, text, type, selected } object the endpoints return for a clue row;
\* a clue text, like a token, stands in the body as the string it is
ClueJson(row) ==
    JsObj(<< <<"id", JsStr(row.id)>>, <<"text", row.clueText>>,
             <<"type", JsStr(row.clueType)>>,
             <<"selected", [j |-> "bool", v |-> row.selectedForReminder]>> >>)

ApiInit ==
    /\ EngineIdle
    /\ EncoderIdle
    /\ ClueIdle
    /\ ValidatorIdle
    /\ MailerIdle
    /\ ApiIdle
    /\ StoreIdle

\* POST /api/games, asked while the game does not exist
PostGames ==
    /\ dbOwner = ""
    /\ \E email \in {"", "organizer", "guest"}, parsed \in BOOLEAN, mail \in BOOLEAN,
          n \in 3..MaxApiPeople :
          IF email = ""
          THEN /\ aResponse' = [status |-> 401,
                                body |-> JsObj(<< <<"error", JsStr("Unauthorized")>> >>)]
               /\ UNCHANGED <<dbOwner, dbParticipants, dbAssignments, dbClues, aDecrypts>>
          ELSE IF ~parsed
          THEN /\ aResponse' = [status |-> 400,
                                body |-> JsObj(<< <<"error", JsStr("Invalid input")>>,
                                                  <<"details", JsArr(<<JsStr("issue")>>)>> >>)]
               /\ UNCHANGED <<dbOwner, dbParticipants, dbAssignments, dbClues, aDecrypts>>
          ELSE \E exclusions \in ClueExclusions(Roster(n)) :
               LET ps == Roster(n)
                   constraints0 == [k \in 1..Len(exclusions) |->
                                       [type |-> "no_couples", data |-> exclusions[k]]]
                   \* generateAssignments: a constrained attempt that succeeds, or,
                   \* attempts having failed, the attempt without constraints
                   constrained == {attemptAssignment(ps, constraints0, js) :
                                      js \in RandomChoices(n)}
                   relaxed == {attemptAssignment(ps, <<>>, js) : js \in RandomChoices(n)}
                   outcomes == {r \in constrained : r.kind = "return"}
                               \cup (IF \E r \in constrained : r.kind = "throw"
                                     THEN relaxed ELSE {})
               IN  \E drawn \in outcomes :
                   /\ dbOwner' = email
                   /\ dbParticipants' = ps
                   /\ IF drawn.kind = "throw"
                      THEN /\ aResponse' = [status |-> 500,
                                 body |-> JsObj(<< <<"error", JsStr("Internal server error")>> >>)]
                           /\ UNCHANGED <<dbAssignments, dbClues, aDecrypts>>
                      ELSE LET encryptedAssignments == encryptAssignments(drawn.value, "s1")
                           IN  /\ dbAssignments' = <<encryptedAssignments>>
                               /\ \E pick \in Picks(encryptedAssignments, ps),
                                     turn \in 0..(MaxTurn - 1), flip \in BOOLEAN :
                                     \E clueData \in {generateClues3(encryptedAssignments, ps,
                                                          exclusions, pick, turn, flip)} :
                                         IF clueData.kind = "throw"
                                         THEN /\ dbClues' = dbClues
                                              /\ aDecrypts' = aDecrypts \cup {"generateClues"}
                                              /\ aResponse' = [status |-> 500,
                                                    body |-> JsObj(<< <<"error",
                                                        JsStr("Internal server error")>> >>)]
                                         ELSE /\ dbClues' =
                                                    [k \in 1..Len(clueData.value) |->
                                                        [id |-> PersonIds[k],
                                                         clueText |-> clueData.value[k].text,
                                                         clueType |-> clueData.value[k].type,
                                                         selectedForReminder |-> FALSE]]
                                              /\ aDecrypts' = aDecrypts \cup {"generateClues"}
                                                    \cup (IF mail
                                                          THEN {"getAssignmentForParticipant"}
                                                          ELSE {})
                                              /\ aResponse' = [status |-> 200,
                                                    body |-> JsObj(<<
                                                        <<"gameId", JsStr("g1")>>,
                                                        <<"name", JsStr("Party")>>,
                                                        <<"partyDate", JsStr("2025-12-24")>>,
                                                        <<"participantCount", JsNum(Len(ps))>>,
                                                        <<"clueCount",
                                                          JsNum(Len(clueData.value))>> >>)]
    /\ UNCHANGED <<engineVars, encoderVars, clueVars, validatorVars, mailerVars, storeVars>>

\* the game rows findMany returns with assignments: true among the includes
GamesFoundWithAssignments(email) ==
    IF dbOwner = "" \/ dbOwner # email THEN <<>>
    ELSE << JsObj(<< <<"id", JsStr("g1")>>, <<"organizerEmail", JsStr(dbOwner)>>,
                     <<"name", JsStr("Party")>>, <<"partyDate", JsStr("2025-12-24")>>,
                     <<"assignments",
                       JsArr([k \in 1..Len(dbAssignments) |->
                           JsObj(<< <<"id", JsStr("a1")>>, <<"gameId", JsStr("g1")>>,
                                    <<"assignmentHash", dbAssignments[k]>> >>)])>> >>) >>

\* prisma.game.findMany of GET /api/games: the rows of the games of email with
\* their participants, clues and counts
GamesFound(email) ==
    IF dbOwner = "" \/ dbOwner # email THEN <<>>
    ELSE << JsObj(<< <<"id", JsStr("g1")>>, <<"organizerEmail", JsStr(dbOwner)>>,
                     <<"name", JsStr("Party")>>, <<"partyDate", JsStr("2025-12-24")>>,
                     <<"giftBudget", JsStr("20")>>, <<"customMessage", JsNull>>,
                     <<"createdAt", JsStr("2025-11-01")>>,
                     <<"participants",
                       JsArr([k \in 1..Len(dbParticipants) |->
                           JsObj(<< <<"id", JsStr(dbParticipants[k].id)>>,
                                    <<"name", JsStr(dbParticipants[k].name)>>,
                                    <<"email", JsStr(dbParticipants[k].email)>>,
                                    <<"gender", JsStr(dbParticipants[k].gender)>>,
                                    <<"yearMoved", JsNum(dbParticipants[k].yearMoved)>> >>)])>>,
                     <<"clues",
                       JsArr([k \in 1..Len(dbClues) |->
                           JsObj(<< <<"id", JsStr(dbClues[k].id)>>,
                                    <<"gameId", JsStr("g1")>>,
                                    <<"clueText", dbClues[k].clueText>>,
                                    <<"clueType", JsStr(dbClues[k].clueType)>>,
                                    <<"selectedForReminder",
                                      [j |-> "bool", v |-> dbClues[k].selectedForReminder]>> >>)])>>,
                     <<"_count",
                       JsObj(<< <<"participants", JsNum(Len(dbParticipants))>>,
                                <<"clues", JsNum(Len(dbClues))>> >>)>> >>) >>

\* GET /api/games
GetGames ==
    /\ \E email \in {"", "organizer", "guest"} :
          aResponse' = IF email = ""
                       THEN [status |-> 401,
                             body |-> JsObj(<< <<"error", JsStr("Unauthorized")>> >>)]
                       ELSE [status |-> 200, body |-> JsArr(GamesFound(email))]
    /\ UNCHANGED <<dbOwner, dbParticipants, dbAssignments, dbClues, aDecrypts>>
    /\ UNCHANGED <<engineVars, encoderVars, clueVars, validatorVars, mailerVars, storeVars>>

\* POST /api/games/[id]/regenerate-clues
PostRegenerateClues ==
    /\ \E email \in {"", "organizer", "guest"} :
          IF email = ""
          THEN /\ aResponse' = [status |-> 401,
                                body |-> JsObj(<< <<"error", JsStr("Unauthorized")>> >>)]
               /\ UNCHANGED <<dbClues, aDecrypts>>
          ELSE IF dbOwner = "" \/ dbOwner # email
          THEN /\ aResponse' = [status |-> 404, body |-> JsObj(<< <<"error",
                                    JsStr("Game not found or you are not the organizer")>> >>)]
               /\ UNCHANGED <<dbClues, aDecrypts>>
          ELSE IF Len(dbAssignments) = 0
          THEN /\ aResponse' = [status |-> 400, body |-> JsObj(<< <<"error",
                                    JsStr("No assignments found for this game")>> >>)]
               /\ UNCHANGED <<dbClues, aDecrypts>>
          ELSE IF Len(dbParticipants) = 0
          THEN /\ aResponse' = [status |-> 400, body |-> JsObj(<< <<"error",
                                    JsStr("No participants found for this game")>> >>)]
               /\ UNCHANGED <<dbClues, aDecrypts>>
          ELSE LET encryptedAssignments == dbAssignments[1]
               IN  \E pick \in Picks(encryptedAssignments, dbParticipants),
                      turn \in 0..(MaxTurn - 1), flip \in BOOLEAN :
                      \E clueData \in {generateClues3(encryptedAssignments, dbParticipants,
                                           <<>>, pick, turn, flip)} :
                      LET newClues == [k \in 1..Len(clueData.value) |->
                                          [id |-> PersonIds[k],
                                           clueText |-> clueData.value[k].text,
                                           clueType |-> clueData.value[k].type,
                                           selectedForReminder |-> FALSE]]
                      IN  /\ aDecrypts' = aDecrypts \cup {"generateClues"}
                          /\ IF clueData.kind = "throw"
                             THEN /\ dbClues' = <<>>
                                  /\ aResponse' = [status |-> 500, body |-> JsObj(<<
                                        <<"error", JsStr("Internal server error")>> >>)]
                             ELSE /\ dbClues' = newClues
                                  /\ aResponse' = [status |-> 200, body |-> JsObj(<<
                                        <<"success", [j |-> "bool", v |-> TRUE]>>,
                                        <<"message", Text("Successfully regenerated clues",
                                                          Len(newClues), 0)>>,
                                        <<"clues", JsArr([k \in 1..Len(newClues) |->
                                                        ClueJson(newClues[k])])>> >>)]
    /\ UNCHANGED <<dbOwner, dbParticipants, dbAssignments>>
    /\ UNCHANGED <<engineVars, encoderVars, clueVars, validatorVars, mailerVars, storeVars>>

\* PUT /api/games/[id]/clues/selection; the rows come back ordered by clueText,
\* which is one of the orders of the rows
PutClueSelection ==
    /\ \E email \in {"", "organizer", "guest"},
          selectedClueIds \in {<<>>, <<"p1">>, <<"p1", "p2">>, <<"p3", "stale">>} :
          IF email = ""
          THEN /\ aResponse' = [status |-> 401,
                                body |-> JsObj(<< <<"error", JsStr("Unauthorized")>> >>)]
               /\ dbClues' = dbClues
          ELSE IF dbOwner = "" \/ dbOwner # email
          THEN /\ aResponse' = [status |-> 404, body |-> JsObj(<< <<"error",
                                    JsStr("Game not found or you are not the organizer")>> >>)]
               /\ dbClues' = dbClues
          ELSE IF Len(selectedClueIds) < 1
          THEN /\ aResponse' = [status |-> 400,
                                body |-> JsObj(<< <<"error", JsStr("Invalid request data")>>,
                                                  <<"details", JsArr(<<JsStr("issue")>>)>> >>)]
               /\ dbClues' = dbClues
          ELSE /\ dbClues' = [k \in 1..Len(dbClues) |->
                                 [dbClues[k] EXCEPT !.selectedForReminder =
                                     \E i \in 1..Len(selectedClueIds) :
                                         selectedClueIds[i] = dbClues[k].id]]
               /\ \E order \in IndexPermutations(Len(dbClues)) :
                     aResponse' = [status |-> 200, body |-> JsObj(<<
                         <<"success", [j |-> "bool", v |-> TRUE]>>,
                         <<"message", Text("clues selected for reminder emails",
                                           Len(selectedClueIds), 0)>>,
                         <<"clues", JsArr([k \in 1..Len(dbClues) |->
                                         ClueJson(dbClues'[order[k]])])>> >>)]
    /\ UNCHANGED <<dbOwner, dbParticipants, dbAssignments, aDecrypts>>
    /\ UNCHANGED <<engineVars, encoderVars, clueVars, validatorVars, mailerVars, storeVars>>

\* GET /api/games/[id]/clues, which asks for no session
GetClues ==
    /\ aResponse' =
          IF dbOwner = ""
          THEN [status |-> 404, body |-> JsObj(<< <<"error", JsStr("Game not found")>> >>)]
          ELSE [status |-> 200, body |-> JsObj(<<
                   <<"gameId", JsStr("g1")>>, <<"name", JsStr("Party")>>,
                   <<"partyDate", JsStr("2025-12-24")>>,
                   <<"participantCount", JsNum(Len(dbParticipants))>>,
                   <<"clues", JsArr([k \in 1..Len(dbClues) |-> ClueJson(dbClues[k])])>> >>)]
    /\ UNCHANGED <<dbOwner, dbParticipants, dbAssignments, dbClues, aDecrypts>>
    /\ UNCHANGED <<engineVars, encoderVars, clueVars, validatorVars, mailerVars, storeVars>>

ApiSpec ==
    ApiInit /\ [][PostGames \/ GetGames \/ PostRegenerateClues \/ PutClueSelection
                    \/ GetClues]_vars

\* a value of a response body and every value inside it, outermost first
RECURSIVE Nodes(_)
RECURSIVE NodesOfAll(_)
Nodes(value) ==
    IF "j" \notin DOMAIN value THEN <<value>>
    ELSE IF value.j = "arr" THEN <<value>> \o NodesOfAll(value.v)
    ELSE IF value.j = "obj"
    THEN <<value>> \o NodesOfAll([k \in 1..Len(value.v) |-> value.v[k][2]])
    ELSE <<value>>

NodesOfAll(values) ==
    IF values = <<>> THEN <<>> ELSE Nodes(Head(values)) \o NodesOfAll(Tail(values))

\* the strings an object or list holds directly
StringsOf(node) ==
    IF "j" \notin DOMAIN node \/ node.j \notin {"arr", "obj"} THEN {}
    ELSE LET held == IF node.j = "arr" THEN node.v
                     ELSE [k \in 1..Len(node.v) |-> node.v[k][2]]
         IN  {held[k].v : k \in {i \in 1..Len(held) :
                                    "j" \in DOMAIN held[i] /\ held[i].j = "str"}}

\* C16: after any sequence of requests to POST and GET /api/games, POST
\* regenerate-clues, PUT clue selection and GET clues, the last response holds
\* no assignment token and no object or list holding the giver and the receiver
\* (by id or by name) of a pair some stored token opens to, and only
\* generateClues and getAssignmentForParticipant have decrypted a token.
C16_ResponsesHideAssignments ==
    /\ \A nodes \in {Nodes(aResponse.body)} :
          /\ \A k \in 1..Len(nodes) : "kind" \notin DOMAIN nodes[k]
          /\ \A k \in 1..Len(dbAssignments) :
                \A draw \in {Decoded(dbAssignments[k])} :
                   \A i \in 1..Len(draw), n \in 1..Len(nodes) :
                      \A held \in {StringsOf(nodes[n])} :
                         LET named(id) == {id, MapGet(dbParticipants, id).name}
                         IN  ~(/\ held \cap named(draw[i].giverId) # {}
                               /\ held \cap named(draw[i].receiverId) # {})
    /\ aDecrypts \subseteq {"generateClues", "getAssignmentForParticipant"}

\* the organizer lists the games once the draw is stored, mailed and turned
\* into clues, and gets the game with its participants and clues
C16_Witness ==
    /\ Len(dbAssignments) = 1
    /\ Len(Decoded(dbAssignments[1])) >= 3
    /\ aDecrypts = {"generateClues", "getAssignmentForParticipant"}
    /\ aResponse.status = 200
    /\ aResponse.body.j = "arr"
    /\ Len(aResponse.body.v) = 1
    /\ Len(dbClues) > 0
    /\ \E k \in 1..Len(dbClues) : dbClues[k].selectedForReminder

-----------------------------------------------------------------------------
(* Further properties of generateAssignments *)

\* C21: a step of generateAssignments that returns hands back the encrypted
\* result of the attempt made in that very step, and nothing is attempted or
\* encrypted after a return or a raise; the attempt without constraints is
\* made only when exactly maxAttempts constrained attempts were made and all
\* failed, only once, and only when nothing has been encrypted in the call.
C21_FirstSuccessReturnedFallbackAfterAllFailed ==
    [][ /\ (pc = "loop" /\ pc' = "returned") =>
              /\ tried' = tried + 1 /\ fallbackTried' = 0 /\ encryptCalls' = 1
              /\ \E js \in RandomChoices(Len(participants)), salt \in Salts :
                    \E a \in {attemptAssignment(participants, constraints, js)} :
                       a.kind = "return" /\ result' = encryptAssignments(a.value, salt)
        /\ (pc = "fallback" /\ pc' = "returned") =>
              /\ tried' = tried /\ encryptCalls' = 1
              /\ \E js \in RandomChoices(Len(participants)), salt \in Salts :
                    \E a \in {attemptAssignment(participants, <<>>, js)} :
                       a.kind = "return" /\ result' = encryptAssignments(a.value, salt)
        /\ pc \in {"returned", "raised"} =>
              /\ tried' = tried /\ fallbackTried' = fallbackTried
              /\ encryptCalls' = encryptCalls /\ result' = result
        /\ fallbackTried' # fallbackTried =>
              /\ fallbackTried = 0 /\ fallbackTried' = 1
              /\ tried = maxAttempts /\ attempts = maxAttempts
              /\ encryptCalls = 0 /\ pc = "fallback"
        /\ pc' = "fallback" => tried' = maxAttempts /\ attempts' = maxAttempts ]_vars

\* a call that returned the result of the attempt without constraints after
\* maxAttempts failed constrained attempts
C21_Witness ==
    /\ pc = "returned" /\ encryptCalls = 1
    /\ tried = maxAttempts /\ fallbackTried = 1 /\ warned
    /\ Len(participants) >= 3

-----------------------------------------------------------------------------
(* Further properties of the 10-clue generateClues *)

\* C22: every clue the 10-clue generateClues returns, main or backfill, passes
\* isClueObvious: no 'year' clue with at most 2 distinct arrival years, no
\* 'gender' clue when men or women are more than 80% of the men and women
\* together, no 'There are N people' count clue with at most 4 participants.
\* At exactly 80% gender clues are not suppressed: unless exclusions among at
\* most 4 men and women suppress them, a list short of the target count has one.
C22_ReturnedCluesPassFilter ==
    (gpc = "done" /\ gVariant = TargetCount10 /\ gResult.kind = "return") =>
        \A analysis \in {analyzeParticipantDistribution(gParticipants, gExclusions)} :
            LET years == {gParticipants[i].yearMoved : i \in 1..Len(gParticipants)}
                men == Cardinality({i \in 1..Len(gParticipants) :
                                       gParticipants[i].gender = "male"})
                women == Cardinality({i \in 1..Len(gParticipants) :
                                         gParticipants[i].gender = "female"})
            IN  /\ \A k \in 1..Len(gResult.value) :
                      LET clue == gResult.value[k]
                      IN  /\ ~isClueObvious(clue, gParticipants, analysis, gExclusions)
                          /\ clue.type = "year" => Cardinality(years) > 2
                          /\ clue.type = "gender" =>
                                /\ 5 * men <= 4 * (men + women)
                                /\ 5 * women <= 4 * (men + women)
                          /\ (clue.type = "count" /\ clue.text.t \in ThereArePeopleTexts) =>
                                Len(gParticipants) > 4
                /\ ( /\ men + women > 0
                     /\ 5 * men = 4 * (men + women) \/ 5 * women = 4 * (men + women)
                     /\ gExclusions = <<>> \/ men + women > 4
                     /\ Len(gResult.value) < TargetCount10 ) =>
                       \E n \in 1..Len(gResult.value) : gResult.value[n].type = "gender"

\* four men and one woman, exactly 80%: gender clues are returned, and with
\* two arrival years only the list is filled from the backfill
C22_Witness ==
    /\ gpc = "done" /\ gVariant = TargetCount10 /\ gResult.kind = "return"
    /\ Len(gParticipants) = 5
    /\ Cardinality({i \in 1..Len(gParticipants) : gParticipants[i].gender = "male"}) = 4
    /\ \E k \in 1..Len(gResult.value) : gResult.value[k].type = "gender"
    /\ \E k \in 1..Len(gResult.value) : gResult.value[k].type \notin {"gender", "year"}

-----------------------------------------------------------------------------
(* The gender-pattern generator *)

\* C23: generateGenderGiftingClues emits four statements, one for each of the
\* counts male-to-female, female-to-male, male-to-male and female-to-female:
\* the 'No ...' statement of the pair at difficulty medium when the count is
\* 0, and a statement about the pair at difficulty easy otherwise, carrying
\* the count when it is greater than 1.
C23_OneStatementPerGenderPair ==
    (gpc = "done" /\ OpensToList(gToken)) =>
        \A draw \in {Decoded(gToken)} :
        \A clues \in {generateGenderGiftingClues(draw, gParticipants, gExclusions)} :
            LET pairs == << <<"male", "female">>, <<"female", "male">>,
                            <<"male", "male">>, <<"female", "female">> >>
                noText == << "No men are giving gifts to women",
                             "No women are giving gifts to men",
                             "No men are giving gifts to other men",
                             "No women are giving gifts to other women" >>
                about == << {noText[1], "Exactly one man is giving a gift to a woman",
                             "N men are giving gifts to women"},
                            {noText[2], "Exactly one woman is giving a gift to a man",
                             "N women are giving gifts to men"},
                            {noText[3]}, {noText[4]} >>
                count(p) == GenderPairs(draw, gParticipants, pairs[p][1], pairs[p][2])
            IN  /\ Len(clues) = 4
                /\ \A p \in 1..4 :
                      \E k \in 1..Len(clues) :
                         /\ clues[k].text.t \in about[p]
                         /\ count(p) = 0 =>
                               clues[k].text.t = noText[p] /\ clues[k].difficulty = "medium"
                         /\ count(p) >= 1 =>
                               clues[k].text.t # noText[p] /\ clues[k].difficulty = "easy"
                         /\ count(p) > 1 => clues[k].text.a = count(p)

-----------------------------------------------------------------------------
(* Backfill in generateClues *)

\* the main candidates of the call that reach the shuffle when the
\* specific-pattern generator draws index pick, in generation order
MainOfCall(pick) ==
    IF gVariant = TargetCount10 THEN SurvivingMain10(pick)
    ELSE MainCandidates3(Decoded(gToken), gParticipants, gExclusions, pick)

\* the backfill of the call for a list needed short of the target
BackfillOfCall(needed) ==
    IF gVariant = TargetCount10
    THEN generateSmartBackupClues(Decoded(gToken), gParticipants,
             analyzeParticipantDistribution(gParticipants, gExclusions), gExclusions, needed)
    ELSE generateBackupClues(Decoded(gToken), gParticipants, needed)

\* C24: in both variants the returned list is, for some draw of the
\* specific-pattern generator, either the target count of main clues and
\* nothing else (when at least that many main clues reach the shuffle), or all
\* the main clues in some order followed by the backfill for the missing
\* number: no backfill clue before a main clue, no main clue dropped.
C24_BackfillOnlyAfterMain ==
    (gpc = "done" /\ gResult.kind = "return" /\ OpensToList(gToken)) =>
        \E pick \in Picks(gToken, gParticipants) :
        \E main \in {MainOfCall(pick)} :
            LET returned == gResult.value
                target == gVariant
                isMain(clue) == \E i \in 1..Len(main) : main[i] = clue
                times(seq, clue) == Cardinality({i \in 1..Len(seq) : seq[i] = clue})
            IN  IF Len(main) >= target
                THEN /\ Len(returned) = target
                     /\ \A k \in 1..Len(returned) :
                           /\ isMain(returned[k])
                           /\ times(returned, returned[k]) <= times(main, returned[k])
                ELSE /\ Len(returned) >= Len(main)
                     /\ \A i \in 1..Len(main) :
                           times(SubSeq(returned, 1, Len(main)), main[i]) = times(main, main[i])
                     /\ SubSeq(returned, Len(main) + 1, Len(returned))
                           = BackfillOfCall(target - Len(main))

\* a call in which some but fewer than the target count of main clues reached
\* the shuffle and backfill clues were appended
C24_Witness ==
    /\ gpc = "done" /\ gResult.kind = "return" /\ OpensToList(gToken)
    /\ Len(gParticipants) >= 3
    /\ \A pick \in Picks(gToken, gParticipants) :
          \A main \in {MainOfCall(pick)} :
             /\ Len(main) > 0
             /\ Len(main) < gVariant
             /\ Len(gResult.value) > Len(main)

-----------------------------------------------------------------------------
(* Completeness of one constrained attempt *)

\* C25: for the participants and exclusions of a call that has made an
\* attempt, every assignment list in which everyone gives to someone else and
\* no excluded pair is joined is returned by attemptAssignment for some outcome
\* of the shuffle; so some outcome succeeds whenever the exclusions can be
\* satisfied, and the attempt fails for every outcome only when they cannot.
C25_AttemptCompleteOverShuffles ==
    tried >= 1 =>
        \A outcomes \in {{attemptAssignment(participants, constraints, js) :
                             js \in RandomChoices(Len(participants))}} :
           /\ \A as \in DerangementLists(participants) :
                 AvoidsExclusions(as, participants, constraints) => Return(as) \in outcomes
           /\ JointlySatisfiable(participants, constraints)
                 => \E o \in outcomes : o.kind = "return"
           /\ (\A o \in outcomes : o.kind = "throw")
                 => ~JointlySatisfiable(participants, constraints)

\* a constrained attempt on four participants with an exclusion failed, while
\* two different valid draws exist and another shuffle returns each of them
C25_Witness ==
    /\ pc = "loop"
    /\ attempts = 1
    /\ tried = 1
    /\ Len(participants) = MaxParticipants
    /\ constraints # <<>>
    /\ \E a, b \in DerangementLists(participants) :
          /\ a # b
          /\ AvoidsExclusions(a, participants, constraints)
          /\ AvoidsExclusions(b, participants, constraints)
          /\ \E js \in RandomChoices(Len(participants)) :
                attemptAssignment(participants, constraints, js) = Return(a)

-----------------------------------------------------------------------------
(* Game creation leaves no partial record *)

\* C30: whenever a game row is stored, an assignment row holding its token is
\* stored with it: no request to POST /api/games leaves a game or participant
\* rows without a token.
C30_StoredGameHasToken ==
    (dbOwner # "" \/ dbParticipants # <<>>) => Len(dbAssignments) >= 1

-----------------------------------------------------------------------------
(* Requests on the clue rows of one game, interleaved at their awaits *)

\* the clue rows POST /api/games stored for game g1 with participants
\* Roster(MaxApiPeople), all unselected, and one clue row of another game
StoredAtFirst ==
    LET drawn == encryptAssignments(RingDraw(Roster(MaxApiPeople)), "s1")
        clueData == generateClues3(drawn, Roster(MaxApiPeople), <<>>, 1, 0, FALSE).value
    IN  {[id |-> [gen |-> 0, k |-> k], gameId |-> "g1", clueText |-> clueData[k].text,
          selectedForReminder |-> FALSE] : k \in 1..Len(clueData)}
        \cup {[id |-> [gen |-> 0, k |-> 0], gameId |-> "g2",
               clueText |-> Text("No one is giving a gift to themself", 0, 0),
               selectedForReminder |-> FALSE]}

\* game g1 of the organizer as POST /api/games left it; its token opens, or was
\* stored under an ENCRYPTION_KEY since replaced and no longer opens
StoreInit ==
    /\ EngineIdle
    /\ EncoderIdle
    /\ ClueIdle
    /\ ValidatorIdle
    /\ MailerIdle
    /\ ApiIdle
    /\ sRows = StoredAtFirst
    /\ sToken \in {encryptAssignments(RingDraw(Roster(MaxApiPeople)), "s1"), Corrupt("s1")}
    /\ sGen = 0
    /\ sReq = [s \in 1..MaxRequests |->
                  [op |-> "none", pc |-> "idle", status |-> 0, ids |-> {}, clues |-> {}]]
    /\ sSent = <<>>

\* POST regenerate-clues up to the end of prisma.clue.deleteMany
RegenerateDelete ==
    /\ \E s \in 1..MaxRequests, email \in {"", "organizer", "guest"} :
          /\ sReq[s].pc = "idle"
          /\ IF email = ""
             THEN /\ sReq' = [sReq EXCEPT ![s] = [@ EXCEPT !.op = "regenerate",
                                                     !.pc = "done", !.status = 401]]
                  /\ sRows' = sRows
             ELSE IF email # "organizer"
             THEN /\ sReq' = [sReq EXCEPT ![s] = [@ EXCEPT !.op = "regenerate",
                                                     !.pc = "done", !.status = 404]]
                  /\ sRows' = sRows
             ELSE /\ sReq' = [sReq EXCEPT ![s] = [@ EXCEPT !.op = "regenerate",
                                                     !.pc = "deleted"]]
                  /\ sRows' = {r \in sRows : r.gameId # "g1"}
    /\ UNCHANGED <<sToken, sGen, sSent>>
    /\ UNCHANGED <<engineVars, encoderVars, clueVars, validatorVars, mailerVars, apiVars>>

\* POST regenerate-clues from generateClues to its response; the creates of
\* Promise.all are taken together, and one of the first MaxRejected may be
\* rejected (rejected = 0: none is)
RegenerateInsert ==
    /\ \E s \in 1..MaxRequests :
          /\ sReq[s].op = "regenerate"
          /\ sReq[s].pc = "deleted"
          /\ \E pick \in Picks(sToken, Roster(MaxApiPeople)),
                turn \in 0..(MaxTurn - 1), flip \in BOOLEAN :
                \E clueData \in {generateClues3(sToken, Roster(MaxApiPeople), <<>>,
                                     pick, turn, flip)} :
                   IF clueData.kind = "throw"
                   THEN /\ sReq' = [sReq EXCEPT ![s] = [@ EXCEPT !.pc = "done",
                                                           !.status = 500]]
                        /\ UNCHANGED <<sRows, sGen>>
                   ELSE \E rejected \in 0..(IF Len(clueData.value) < MaxRejected
                                              THEN Len(clueData.value) ELSE MaxRejected) :
                        /\ sGen' = sGen + 1
                        /\ sRows' = sRows \cup
                              {[id |-> [gen |-> sGen', k |-> k], gameId |-> "g1",
                                clueText |-> clueData.value[k].text,
                                selectedForReminder |-> FALSE] :
                                  k \in (1..Len(clueData.value)) \ {rejected}}
                        /\ sReq' = [sReq EXCEPT ![s] = [@ EXCEPT !.pc = "done",
                                       !.status = IF rejected = 0 THEN 200 ELSE 500,
                                       !.ids = {[gen |-> sGen', k |-> k] :
                                                   k \in (1..Len(clueData.value)) \ {rejected}}]]
    /\ UNCHANGED <<sToken, sSent>>
    /\ UNCHANGED <<engineVars, encoderVars, clueVars, validatorVars, mailerVars, apiVars>>

\* PUT clues/selection up to the end of the updateMany that unselects every
\* clue of the game; the ids of the body are ids of rows the client has seen
SelectionClear ==
    /\ \E s \in 1..MaxRequests, email \in {"", "organizer", "guest"},
          selectedClueIds \in SUBSET {r.id : r \in sRows} :
          /\ sReq[s].pc = "idle"
          /\ Cardinality(selectedClueIds) <= MaxSelected
          /\ IF email = ""
             THEN /\ sReq' = [sReq EXCEPT ![s] = [@ EXCEPT !.op = "selection",
                                                     !.pc = "done", !.status = 401]]
                  /\ sRows' = sRows
             ELSE IF email # "organizer"
             THEN /\ sReq' = [sReq EXCEPT ![s] = [@ EXCEPT !.op = "selection",
                                                     !.pc = "done", !.status = 404]]
                  /\ sRows' = sRows
             ELSE IF Cardinality(selectedClueIds) < 1
             THEN /\ sReq' = [sReq EXCEPT ![s] = [@ EXCEPT !.op = "selection",
                                                     !.pc = "done", !.status = 400]]
                  /\ sRows' = sRows
             ELSE /\ sReq' = [sReq EXCEPT ![s] = [@ EXCEPT !.op = "selection",
                                                     !.pc = "cleared",
                                                     !.ids = selectedClueIds]]
                  /\ sRows' = {IF r.gameId = "g1"
                               THEN [r EXCEPT !.selectedForReminder = FALSE] ELSE r :
                                   r \in sRows}
    /\ UNCHANGED <<sToken, sGen, sSent>>
    /\ UNCHANGED <<engineVars, encoderVars, clueVars, validatorVars, mailerVars, apiVars>>

\* PUT clues/selection from the updateMany that selects the posted ids to its
\* response, which lists the clue rows of the game found after the update
SelectionSet ==
    /\ \E s \in 1..MaxRequests :
          /\ sReq[s].op = "selection"
          /\ sReq[s].pc = "cleared"
          /\ sRows' = {IF r.gameId = "g1" /\ r.id \in sReq[s].ids
                       THEN [r EXCEPT !.selectedForReminder = TRUE] ELSE r : r \in sRows}
          /\ sReq' = [sReq EXCEPT ![s] = [@ EXCEPT !.pc = "done", !.status = 200,
                         !.clues = {r.clueText : r \in {q \in sRows' : q.gameId = "g1"}}]]
    /\ UNCHANGED <<sToken, sGen, sSent>>
    /\ UNCHANGED <<engineVars, encoderVars, clueVars, validatorVars, mailerVars, apiVars>>

\* POST send-reminder up to the end of prisma.game.findUnique and the checks
\* on what it found; the handler asks for no session
ReminderRead ==
    /\ \E s \in 1..MaxRequests, configured \in BOOLEAN :
          /\ sReq[s].pc = "idle"
          /\ LET found == {r \in sRows : r.gameId = "g1" /\ r.selectedForReminder}
             IN  IF ~configured
                 THEN sReq' = [sReq EXCEPT ![s] = [@ EXCEPT !.op = "reminder",
                                                      !.pc = "done", !.status = 500]]
                 ELSE IF found = {}
                 THEN sReq' = [sReq EXCEPT ![s] = [@ EXCEPT !.op = "reminder",
                                                      !.pc = "done", !.status = 400]]
                 ELSE sReq' = [sReq EXCEPT ![s] = [@ EXCEPT !.op = "reminder",
                                                      !.pc = "read",
                                                      !.ids = {r.id : r \in found},
                                                      !.clues = {r.clueText : r \in found}]]
    /\ UNCHANGED <<sRows, sToken, sGen, sSent>>
    /\ UNCHANGED <<engineVars, encoderVars, clueVars, validatorVars, mailerVars, apiVars>>

\* POST send-reminder from resend.emails.send to its response: one email to
\* every participant, carrying the clues found
ReminderSend ==
    /\ \E s \in 1..MaxRequests, outcome \in {"data", "error"} :
          /\ sReq[s].op = "reminder"
          /\ sReq[s].pc = "read"
          /\ sSent' = Append(sSent,
                 [to |-> [i \in 1..MaxApiPeople |-> Roster(MaxApiPeople)[i].email],
                  clues |-> sReq[s].clues])
          /\ sReq' = [sReq EXCEPT ![s] = [@ EXCEPT !.pc = "done",
                         !.status = IF outcome = "data" THEN 200 ELSE 500]]
    /\ UNCHANGED <<sRows, sToken, sGen>>
    /\ UNCHANGED <<engineVars, encoderVars, clueVars, validatorVars, mailerVars, apiVars>>

StoreSpec ==
    StoreInit /\ [][RegenerateDelete \/ RegenerateInsert \/ SelectionClear \/ SelectionSet
                        \/ ReminderRead \/ ReminderSend]_vars

-----------------------------------------------------------------------------
(* Properties of requests that overlap or fail *)

\* C26: once every request has completed, no regeneration having failed and
\* one having succeeded, the clue rows of the game are the rows one single
\* regeneration created, at most the target count of them.
C26_StoredCluesOfOneGeneration ==
    (/\ \A s \in 1..MaxRequests : sReq[s].pc \in {"idle", "done"}
     /\ \E s \in 1..MaxRequests : sReq[s].op = "regenerate" /\ sReq[s].status = 200
     /\ \A s \in 1..MaxRequests : sReq[s].op = "regenerate" => sReq[s].status # 500)
        => LET stored == {r \in sRows : r.gameId = "g1"}
           IN  /\ Cardinality(stored) <= TargetCount3
               /\ \E s \in 1..MaxRequests :
                     /\ sReq[s].op = "regenerate"
                     /\ sReq[s].status = 200
                     /\ {r.id : r \in stored} = sReq[s].ids

\* C27: when the only request made so far is a regeneration that answered 500,
\* the clue rows and their selectedForReminder flags are as they were before it.
C27_FailedRegenerationKeepsClues ==
    \A s \in 1..MaxRequests :
        (/\ sReq[s].op = "regenerate"
         /\ sReq[s].pc = "done"
         /\ sReq[s].status = 500
         /\ \A t \in (1..MaxRequests) \ {s} : sReq[t].pc = "idle")
            => sRows = StoredAtFirst

\* C28: the step that completes a selection request with ids S leaves selected
\* exactly the clues of the game whose id is in S, and changes no clue of
\* another game, whatever other requests ran in between.
C28_SelectedExactlyThePostedIds ==
    [][\A s \in 1..MaxRequests :
          (sReq[s].pc = "cleared" /\ sReq'[s].pc = "done" /\ sReq'[s].status = 200)
             => /\ {r.id : r \in {q \in sRows' : q.gameId = "g1" /\ q.selectedForReminder}}
                      = {r.id : r \in {q \in sRows' : q.gameId = "g1"}} \cap sReq[s].ids
                /\ {r \in sRows' : r.gameId # "g1"} = {r \in sRows : r.gameId # "g1"}]_vars

\* C29: the step that completes a regeneration with status 200 leaves every
\* clue of the game unselected, a reminder request that finds no selected clue
\* answers 400 and sends nothing, and an email carries only clues that were
\* selected when the request read them.
C29_RegeneratedCluesUnselected ==
    [][\A s \in 1..MaxRequests :
          /\ (sReq[s].pc = "deleted" /\ sReq'[s].pc = "done" /\ sReq'[s].status = 200)
                => \A r \in sRows' : r.gameId = "g1" => ~r.selectedForReminder
          /\ (sReq[s].pc = "idle" /\ sReq'[s].op = "reminder")
                => IF \E r \in sRows : r.gameId = "g1" /\ r.selectedForReminder
                   THEN sReq'[s].ids \subseteq
                            {r.id : r \in {q \in sRows : q.selectedForReminder}}
                   ELSE sReq'[s].pc = "done" /\ sReq'[s].status \in {400, 500}
          /\ (sReq[s].pc = "read" /\ sReq'[s].pc = "done")
                => /\ Len(sSent') = Len(sSent) + 1
                   /\ sSent'[Len(sSent')].clues = sReq[s].clues]_vars

====
